---- MODULE Spec2Model ----
(***************************************************************************)
(* A model of s3-api (src/s3.js): the S3API class as a state machine over  *)
(* a model of the S3 backend.                                              *)
(*                                                                         *)
(* Keys are sequences of one-character strings, so that prefixing,         *)
(* slicing, basename and the lexicographic order of a listing are computed *)
(* and not assumed.  An action is the synchronous part of a method, the   *)
(* backend serving a request, or the handler of a response together with   *)
(* the nextTick callback it schedules and all the code that callback       *)
(* calls.                                                                  *)
(***************************************************************************)
EXTENDS Integers, Sequences, FiniteSets, TLC

VARIABLES
    objects,    \* the backend: <<bucket, key>> -> [size, mtime, body, record]
    prefix,     \* this.prefix of the client instance
    pageSize,   \* the most entries the backend returns in one page
    op,         \* the method the caller invoked: "none" when no call is open
    opts,       \* the options object the caller passed (the methods write to it)
    listing,    \* the locals of list(): pc, done, files, total_bytes, num_calls, StartAfter
    result,     \* what the caller's callback received
    calls,      \* the single-object calls in progress: id -> call (0: the caller's, i: item i's)
    cache,      \* this.cache: on, maxItems, keyMatch
    lru,        \* this.lru: the cached records, the most recently used first
    job,        \* async.eachLimit of a multi-object method, and its counters
    before,     \* the backend as it was when the caller invoked the open call
    last        \* the call the caller made before the open one, and how it ended

vars == <<objects, prefix, pageSize, op, opts, listing, result, calls, cache, lru,
          job, before, last>>

----------------------------------------------------------------------------
(* Bounds of the model *)

MaxPage == 2
MaxThreads == 2
MaxAge == 2
MaxItems == 2        \* cache.maxItems of the capacity run (README: 1000)
MaxFiles == 4        \* page sizes 1..MaxPage stand for MaxKeys = 1000

----------------------------------------------------------------------------
(* Keys *)

Ord(c) == CASE c = "/" -> 0 [] c = "a" -> 1 [] c = "b" -> 2 [] c = "d" -> 3
            [] c = "p" -> 4 [] OTHER -> 5

RECURSIVE KeyLess(_, _)
KeyLess(x, y) ==
    IF x = <<>> THEN y # <<>>
    ELSE IF y = <<>> THEN FALSE
    ELSE IF Head(x) = Head(y) THEN KeyLess(Tail(x), Tail(y))
    ELSE Ord(Head(x)) < Ord(Head(y))

StartsWith(k, p) == Len(k) >= Len(p) /\ SubSeq(k, 1, Len(p)) = p

\* String.prototype.slice(n)
Slice(k, n) == SubSeq(k, n + 1, Len(k))

\* key.match(/\/$/)
EndsWithSlash(k) == k # <<>> /\ k[Len(k)] = "/"

RECURSIVE StripSlashes(_)
StripSlashes(k) ==
    IF Len(k) > 1 /\ EndsWithSlash(k) THEN StripSlashes(SubSeq(k, 1, Len(k) - 1)) ELSE k

\* a match of filespec on the whole key
basename_FullKey(k) == k

\* Path.basename(key): trailing slashes dropped, then what follows the last '/'
basename(k) ==
    LET s == StripSlashes(k)
        idx == {i \in 1..Len(s) : s[i] = "/"}
        cut == IF idx = {} THEN 0 ELSE CHOOSE i \in idx : \A j \in idx : j <= i
    IN  SubSeq(s, cut + 1, Len(s))

\* name.match(filespec) for the regular expressions of the model:
\* "all" is /.*/ and a one-character string c is the regular expression /c/
RegexMatch(name, spec) == spec = "all" \/ \E i \in 1..Len(name) : name[i] = spec

RECURSIVE SortKeys(_)
SortKeys(S) ==
    IF S = {} THEN <<>>
    ELSE LET m == CHOOSE x \in S : \A y \in S \ {x} : KeyLess(x, y)
         IN  <<m>> \o SortKeys(S \ {m})

RECURSIVE SumSizes(_)
SumSizes(fs) == IF fs = <<>> THEN 0 ELSE Head(fs).size + SumSizes(Tail(fs))

----------------------------------------------------------------------------
(* JSON records: JSON.stringify and JSON.parse over token sequences *)

JNull == [t |-> "null"]
JNum(n) == [t |-> "num", v |-> n]
JObj(members) == [t |-> "obj", v |-> members]
JMember(k, v) == [k |-> k, v |-> v]
NoValue == [t |-> "undefined"]

Names == {"a", "b", "c"}
Digits == 0..9
Quote(k) == "\"" \o k \o "\""

RECURSIVE stringify(_)
RECURSIVE StringifyMembers(_)
StringifyMembers(ms) ==
    IF ms = <<>> THEN <<>>
    ELSE <<Quote(Head(ms).k), ":">> \o stringify(Head(ms).v)
            \o (IF Tail(ms) = <<>> THEN <<>> ELSE <<",">> \o StringifyMembers(Tail(ms)))

\* the properties JSON.stringify writes: those whose value is not undefined
IsDefined(m) == m.v # NoValue

\* JSON.stringify(value) as the sequence of its tokens
stringify(val) ==
    CASE val.t = "null" -> <<"null">>
      [] val.t = "num" -> <<ToString(val.v)>>
      [] OTHER -> <<"{">> \o StringifyMembers(SelectSeq(val.v, IsDefined)) \o <<"}">>

ParseFail == [ok |-> FALSE, val |-> NoValue, rest |-> <<>>]

RECURSIVE ParseValue(_)
RECURSIVE ParseMembers(_, _)

\* the members of an object after '{' or ',': acc holds the members read so far
ParseMembers(ts, acc) ==
    IF Len(ts) < 3 \/ ts[2] # ":" \/ ~(\E k \in Names : ts[1] = Quote(k)) THEN ParseFail
    ELSE LET k == CHOOSE k \in Names : ts[1] = Quote(k)
             r == ParseValue(SubSeq(ts, 3, Len(ts)))
         IN  IF ~r.ok \/ r.rest = <<>> THEN ParseFail
             ELSE LET ms == Append(acc, JMember(k, r.val))
                  IN  IF Head(r.rest) = "}"
                      THEN [ok |-> TRUE, val |-> JObj(ms), rest |-> Tail(r.rest)]
                      ELSE IF Head(r.rest) = ","
                      THEN ParseMembers(Tail(r.rest), ms)
                      ELSE ParseFail

ParseValue(ts) ==
    IF ts = <<>> THEN ParseFail
    ELSE IF Head(ts) = "null" THEN [ok |-> TRUE, val |-> JNull, rest |-> Tail(ts)]
    ELSE IF \E n \in Digits : Head(ts) = ToString(n)
    THEN [ok |-> TRUE, val |-> JNum(CHOOSE n \in Digits : Head(ts) = ToString(n)),
          rest |-> Tail(ts)]
    ELSE IF Head(ts) = "{"
    THEN IF Len(ts) >= 2 /\ ts[2] = "}"
         THEN [ok |-> TRUE, val |-> JObj(<<>>), rest |-> SubSeq(ts, 3, Len(ts))]
         ELSE ParseMembers(Tail(ts), <<>>)
    ELSE ParseFail

\* a parser that takes text that is not JSON for an empty record
parse_Lenient(ts) ==
    LET r == ParseValue(ts)
    IN  IF r.ok /\ r.rest = <<>> THEN r
        ELSE [ok |-> TRUE, val |-> JObj(<<>>), rest |-> <<>>]

\* JSON.parse(buf.toString()): the whole text must be one value
parse(ts) ==
    LET r == ParseValue(ts)
    IN  IF r.ok /\ r.rest = <<>> THEN r ELSE ParseFail

----------------------------------------------------------------------------
(* Tools.setPath: a property set by its dot.path *)

HasMember(obj, k) == \E i \in 1..Len(obj.v) : obj.v[i].k = k

MemberOf(obj, k) == obj.v[CHOOSE i \in 1..Len(obj.v) : obj.v[i].k = k].v

\* target[k] = value: in place when the property exists, added last otherwise
SetMember(obj, k, value) ==
    IF HasMember(obj, k)
    THEN JObj([i \in 1..Len(obj.v) |->
                  IF obj.v[i].k = k THEN JMember(k, value) ELSE obj.v[i]])
    ELSE JObj(Append(obj.v, JMember(k, value)))

RECURSIVE setPath(_, _, _)
\* Tools.setPath(target, path, value): a missing node of the path is created as an
\* object, a path that runs into a number changes nothing (a null on the path, on
\* which setPath throws, is not among the records of the model)
setPath(target, parts, value) ==
    IF Len(parts) = 1 THEN SetMember(target, parts[1], value)
    ELSE IF ~HasMember(target, Head(parts))
    THEN SetMember(target, Head(parts), setPath(JObj(<<>>), Tail(parts), value))
    ELSE IF MemberOf(target, Head(parts)).t = "obj"
    THEN SetMember(target, Head(parts),
                   setPath(MemberOf(target, Head(parts)), Tail(parts), value))
    ELSE target

RECURSIVE ApplyUpdates(_, _)
\* for (let key in updates) Tools.setPath(data, key, updates[key])
ApplyUpdates(data, updates) ==
    IF updates = <<>> THEN data
    ELSE ApplyUpdates(setPath(data, Head(updates).path, Head(updates).value),
                      Tail(updates))

----------------------------------------------------------------------------
(* The backend *)

Bucket == "bkt"          \* this.bucket
NullErr == "null"        \* err === null
Now == 2                 \* Tools.timeNow(true) at the time of the call

\* the options object with no property set
DefaultOpts ==
    [remotePath |-> <<>>, destPath |-> <<>>, filespec |-> "unset", filter |-> "unset",
     older |-> 0, emptyFolders |-> FALSE, threads |-> 0, dry |-> FALSE,
     bucket |-> "", sourceBucket |-> "", key |-> <<>>, sourceKey |-> <<>>,
     value |-> NoValue, nonfatal |-> FALSE, localFile |-> <<>>, updates |-> <<>>]

\* what a callback has received: nothing yet
NoResult == [state |-> "none", err |-> NullErr, files |-> <<>>, bytes |-> 0,
             nulls |-> FALSE, data |-> NoValue, meta |-> "none", sent |-> <<>>,
             failedAt |-> "none", count |-> 0,
             base |-> NoValue, read |-> <<>>, logged |-> <<>>, raced |-> FALSE]

NoCalls == [i \in {} |-> 0]
NoJob == [limit |-> 0, files |-> <<>>, bytes |-> 0, next |-> 0, running |-> 0,
          done |-> FALSE, called |-> FALSE, completed |-> 0, failed |-> 0,
          firstErr |-> NullErr, total |-> 0, loaded |-> 0, progress |-> <<>>]
NoLast == [op |-> "none", o |-> DefaultOpts, err |-> NullErr, data |-> NoValue,
           files |-> <<>>, asked |-> <<>>]

Exists(b, k) == <<b, k>> \in DOMAIN objects

\* ListObjectsV2: the keys under Prefix strictly after StartAfter, in key order,
\* at most pageSize of them; IsTruncated iff more remain
ListObjectsV2(b, Prefix, StartAfter) ==
    LET match == {k \in {x[2] : x \in {y \in DOMAIN objects : y[1] = b}} :
                      StartsWith(k, Prefix) /\ KeyLess(StartAfter, k)}
        sorted == SortKeys(match)
        n == IF Len(sorted) < pageSize THEN Len(sorted) ELSE pageSize
    IN  [Contents |-> [i \in 1..n |->
                          [Key |-> sorted[i],
                           Size |-> objects[<<b, sorted[i]>>].size,
                           LastModified |-> objects[<<b, sorted[i]>>].mtime]],
         IsTruncated |-> Len(sorted) > n]

----------------------------------------------------------------------------
(* list *)

\* given: the filter, older and filespec arguments as the caller passed them;
\* asked: params.StartAfter of each request the backend has answered, in order;
\* for walk, files holds the descriptors passed to opts.iterator
NoListing == [pc |-> "idle", done |-> FALSE, files |-> <<>>, total_bytes |-> 0,
              num_calls |-> 0, StartAfter |-> <<>>,
              given |-> [filter |-> "unset", older |-> 0, filespec |-> "unset"],
              asked |-> <<>>, filtered |-> {}]

\* the arguments of o that list() and walk() replace by their defaults
Given(o) == [filter |-> o.filter, older |-> o.older, filespec |-> o.filespec]

\* callback(err, null, null)
Failure(e) == [NoResult EXCEPT !.state = "returned", !.err = e, !.nulls = TRUE]

\* callback(null, files, bytes)
Success(fs, n) == [NoResult EXCEPT !.state = "returned", !.files = fs, !.bytes = n]

\* the caller's callback is invoked with r, once more than before
Returned(prev, r) == [r EXCEPT !.count = prev.count + 1]

\* the caller's filter function of the model
UserFilter(file) == file.size >= 2

\* opts.filter(file), for the function opts.filter holds
CallFilter(o, file) ==
    CASE o.filter = "true" -> TRUE
      [] o.filter = "older" -> file.mtime <= Now - o.older
      [] OTHER -> UserFilter(file)

\* a list() that keeps the folder markers whatever emptyFolders says
Listed_MarkersKept(o, file) ==
    /\ CallFilter(o, file)
    /\ RegexMatch(basename(file.key), o.filespec)

\* the body of items.forEach: whether the item is pushed onto files
Listed(o, file) ==
    /\ ~(file.size = 0 /\ EndsWithSlash(file.key) /\ ~o.emptyFolders)
    /\ CallFilter(o, file)
    /\ RegexMatch(basename(file.key), o.filespec)

\* the test in the loop of walk: whether the item is passed to opts.iterator
Walked(o, file) ==
    /\ CallFilter(o, file)
    /\ RegexMatch(basename(file.key), o.filespec)

\* "check for end of key list": !data.IsTruncated || !items.length
EndOfKeyList_Inverted(data, items) == data.IsTruncated \/ Len(items) = 0
EndOfKeyList(data, items) == ~data.IsTruncated \/ Len(items) = 0

FileOf(item) == [key |-> item.Key, size |-> item.Size, mtime |-> item.LastModified]

\* the defaults list() writes into the caller's opts
ListDefaults(o) ==
    [o EXCEPT !.filespec = IF @ = "unset" THEN "all" ELSE @,
              !.filter = IF o.older # 0 THEN "older"
                         ELSE IF @ = "unset" THEN "true" ELSE @]

\* a list() that lets older replace the caller's filter
Exclusive_Unchecked(o) == FALSE

\* opts.filter && opts.older
Exclusive(o) == o.filter # "unset" /\ o.older # 0

\* list(opts, callback) up to the first ListObjectsV2 request
listBegin(o) ==
    IF Exclusive(o)
    THEN /\ opts' = o
         /\ listing' = [NoListing EXCEPT !.given = Given(o)]
         /\ result' = Returned(result, Failure("Exclusive"))
    ELSE /\ opts' = ListDefaults(o)
         /\ listing' = [NoListing EXCEPT !.pc = "wait", !.given = Given(o)]
         /\ result' = [result EXCEPT !.state = "pending"]

\* a loop that matches filespec before it calls opts.filter
FilterCalled_FilespecFirst(o, file, walking) ==
    /\ walking \/ ~(file.size = 0 /\ EndsWithSlash(file.key) /\ ~o.emptyFolders)
    /\ RegexMatch(basename(file.key), o.filespec)

\* whether the loop calls opts.filter(file): it is the left operand of the && that
\* matches filespec, and list comes to it for every item that it does not skip as a
\* folder marker, walk for every item
FilterCalled(o, file, walking) ==
    walking \/ ~(file.size = 0 /\ EndsWithSlash(file.key) /\ ~o.emptyFolders)

\* a total that counts every entry of the page
PageBytes_Raw(all, kept) == SumSizes(all)

\* total_bytes += bytes, for each entry of the page that is pushed to files
PageBytes(all, kept) == SumSizes(kept)

\* a loop that goes on from the last file it kept
NextStartAfter_LastKept(items, kept) ==
    IF kept = <<>> THEN items[Len(items)].Key ELSE kept[Len(kept)].key

\* params.StartAfter = items[ items.length - 1 ].Key
NextStartAfter(items, kept) == items[Len(items)].Key

\* .then of the ListObjectsV2 request, and the test of async.whilst after it
listThen ==
    /\ listing.pc = "wait"
    /\ LET data == ListObjectsV2(Bucket, prefix \o opts.remotePath, listing.StartAfter)
           items == data.Contents
           all == [i \in 1..Len(items) |-> FileOf(items[i])]
           Keep(f) == IF op = "walk" THEN Walked(opts, f) ELSE Listed(opts, f)
           kept == SelectSeq(all, Keep)
           fin == EndOfKeyList(data, items)
       IN  listing' = [listing EXCEPT
                !.files = @ \o kept,
                !.total_bytes = IF op = "walk" THEN @ ELSE @ + PageBytes(all, kept),
                !.asked = Append(@, listing.StartAfter),
                !.filtered = @ \cup {all[i].key : i \in
                                 {j \in 1..Len(all) : FilterCalled(opts, all[j], op = "walk")}},
                !.done = fin,
                !.StartAfter = IF fin THEN @ ELSE NextStartAfter(items, kept),
                !.num_calls = @ + 1,
                !.pc = IF fin THEN "tick" ELSE "wait"]
    /\ UNCHANGED <<objects, prefix, pageSize, op, opts, result, calls, cache, lru, job, before, last>>

\* .catch of the ListObjectsV2 request: the loop ends with the error
listCatch ==
    /\ listing.pc = "wait"
    /\ listing' = [listing EXCEPT !.pc = "tickerr",
                                  !.asked = Append(@, listing.StartAfter)]
    /\ UNCHANGED <<objects, prefix, pageSize, op, opts, result, calls, cache, lru, job, before, last>>

\* the nextTick callback of list(), called from list itself
listCallback ==
    /\ op = "list"
    /\ listing.pc \in {"tick", "tickerr"}
    /\ result' = Returned(result, IF listing.pc = "tickerr" THEN Failure("StoreError")
                                   ELSE Success(listing.files, listing.total_bytes))
    /\ listing' = [listing EXCEPT !.pc = "idle"]
    /\ UNCHANGED <<objects, prefix, pageSize, op, opts, calls, cache, lru, job, before, last>>

\* the caller invokes list(o)
list(o) ==
    /\ op = "none"
    /\ op' = "list"
    /\ listBegin(o)
    /\ before' = objects
    /\ UNCHANGED <<objects, prefix, pageSize, calls, cache, lru, job, last>>

\* the caller invokes walk(o), with an iterator: up to the first ListObjectsV2
\* request
walk(o) ==
    /\ op = "none"
    /\ op' = "walk"
    /\ opts' = ListDefaults(o)
    /\ listing' = [NoListing EXCEPT !.pc = "wait", !.given = Given(o)]
    /\ result' = [result EXCEPT !.state = "pending"]
    /\ before' = objects
    /\ UNCHANGED <<objects, prefix, pageSize, calls, cache, lru, job, last>>

\* the nextTick callback of walk(): callback(err) or callback(null)
walkCallback ==
    /\ op = "walk"
    /\ listing.pc \in {"tick", "tickerr"}
    /\ result' = Returned(result, IF listing.pc = "tickerr"
                                   THEN [Failure("StoreError") EXCEPT !.nulls = FALSE]
                                   ELSE Success(<<>>, 0))
    /\ listing' = [listing EXCEPT !.pc = "idle"]
    /\ UNCHANGED <<objects, prefix, pageSize, op, opts, calls, cache, lru, job, before, last>>

----------------------------------------------------------------------------
(* The record cache (pixl-cache behind this.lru) *)

\* a cache that takes every key
Cacheable_AnyKey(k) == cache.on

\* this.cache && opts.key.match(this.cache.keyMatch)
Cacheable(k) == cache.on /\ RegexMatch(k, cache.keyMatch)

lruWithout(l, k) == LET Other(e) == e.key # k IN SelectSeq(l, Other)

\* this.lru.has(key)
lruHas(l, k) == \E i \in 1..Len(l) : l[i].key = k

lruPeek(l, k) ==
    IF lruHas(l, k) THEN l[CHOOSE i \in 1..Len(l) : l[i].key = k].value ELSE NoValue

\* the time since the entry of k was set
lruAge(l, k) ==
    IF lruHas(l, k) THEN l[CHOOSE i \in 1..Len(l) : l[i].key = k].age ELSE 0

\* a cache whose entries never expire
Expired_Never(age) == FALSE

\* the entry was set maxAge ago or more (maxAge 0: no limit)
Expired(age) == cache.maxAge > 0 /\ age >= cache.maxAge

\* this.lru.get(key) returns a value: the entry is there and has not expired
lruFresh(l, k) == lruHas(l, k) /\ ~Expired(lruAge(l, k))

\* Each entry carries two ranks that the cache itself does not keep: born, the
\* number of entries of the cache inserted after it, and used, the number of
\* entries set or returned by get after it was last set or returned.
lruEntry(l, k) == l[CHOOSE i \in 1..Len(l) : l[i].key = k]

Renumber(l) ==
    [i \in 1..Len(l) |->
        [l[i] EXCEPT !.born = Cardinality({j \in 1..Len(l) : l[j].born < l[i].born}),
                     !.used = Cardinality({j \in 1..Len(l) : l[j].used < l[i].used})]]

\* the entries other than that of k, after k has been set or returned: fresh tells
\* whether k is a new entry
Outranked(l, k, fresh) ==
    LET rest == lruWithout(l, k)
    IN  [i \in 1..Len(rest) |->
            [rest[i] EXCEPT !.used = @ + 1, !.born = IF fresh THEN @ + 1 ELSE @]]

\* a get that leaves the entry where it is in the list
lruGet_NoPromote(l, k) ==
    IF lruHas(l, k)
    THEN Renumber([i \in 1..Len(l) |->
                     IF l[i].key = k THEN [l[i] EXCEPT !.used = 0]
                     ELSE [l[i] EXCEPT !.used = @ + 1]])
    ELSE l

\* this.lru.get(key): the entry found becomes the most recently used, the head of
\* the list
lruGet(l, k) ==
    IF lruHas(l, k)
    THEN Renumber(<<[lruEntry(l, k) EXCEPT !.used = 0]>> \o Outranked(l, k, FALSE))
    ELSE l

\* this.lru.set(key, value): stored as the most recently used, the head of the
\* list, and the entries at the tail dropped beyond maxItems (0: no limit)
lruSet(l, k, v) ==
    LET e == IF lruHas(l, k)
             THEN [lruEntry(l, k) EXCEPT !.value = v, !.age = 0, !.used = 0]
             ELSE [key |-> k, value |-> v, age |-> 0, born |-> 0, used |-> 0]
        n == <<e>> \o Outranked(l, k, ~lruHas(l, k))
    IN  Renumber(IF cache.maxItems > 0 /\ Len(n) > cache.maxItems
                 THEN SubSeq(n, 1, cache.maxItems) ELSE n)

\* this.lru.delete(key)
lruDelete(l, k) == Renumber(lruWithout(l, k))

----------------------------------------------------------------------------
(* The single-object methods: each call is a sequence of steps, a request to *)
(* the backend, a local stream or file operation, or a nextTick             *)

S3Commands == {"HeadObject", "GetObject", "CopyObject", "DeleteObject", "Upload"}
Ticks == {"Dry", "Hit"}

\* the files Tools.findFiles finds under localPath: path below localPath, size
LocalFiles ==
    << [key |-> <<"/", "a">>, size |-> 1, mtime |-> 1],
       [key |-> <<"/", "b">>, size |-> 2, mtime |-> 1],
       [key |-> <<"/", "d", "/", "a">>, size |-> 3, mtime |-> 2] >>

LocalSize(path) ==
    IF \E i \in 1..Len(LocalFiles) : LocalFiles[i].key = path
    THEN LocalFiles[CHOOSE i \in 1..Len(LocalFiles) : LocalFiles[i].key = path].size
    ELSE 0

\* copy() that never asks the backend for the copy
copySteps_NoRequest(o) == <<"Dry">>

copySteps(o) == IF o.dry THEN <<"Dry">> ELSE <<"CopyObject">>

\* delete() that takes no notice of opts.dry
deleteSteps_DryIgnored(o) == <<"HeadObject", "DeleteObject">>

\* delete() without the head() it makes first
deleteSteps_NoHead(o) == IF o.dry THEN <<"Dry">> ELSE <<"DeleteObject">>

deleteSteps(o) == IF o.dry THEN <<"Dry">> ELSE <<"HeadObject", "DeleteObject">>

\* a put() that writes nothing to the backend when the cache holds the key
putSteps_WriteBack(o, hit) == IF o.dry \/ hit THEN <<"Dry">> ELSE <<"Upload">>

\* put() hands the serialised record to putBuffer whatever the cache holds
putSteps(o, hit) == IF o.dry THEN <<"Dry">> ELSE <<"Upload">>

\* a head() answered from the cache when it holds the key
headSteps_Cached(hit) == IF hit THEN <<"Hit">> ELSE <<"HeadObject">>

\* head() sends its request whatever the cache holds
headSteps(hit) == <<"HeadObject">>

\* what a call of the method does, in order, when every step succeeds; hit tells
\* whether the cache holds the key
StepsOf(name, o, hit) ==
    CASE name = "head" -> headSteps(hit)
      [] name = "copy" -> copySteps(o)
      [] name = "delete" -> deleteSteps(o)
      [] name = "move" -> copySteps(o) \o deleteSteps(o)
      [] name = "put" -> putSteps(o, hit)
      [] name = "get" -> IF hit THEN <<"Hit">> ELSE <<"GetObject", "Read">>
      [] name = "update" ->
            (IF hit THEN <<"Hit">> ELSE <<"GetObject", "Read">>)
                \o (IF o.dry THEN <<"Dry">> ELSE <<"Upload">>)
      [] name = "downloadFile" ->
            IF o.dry THEN <<"Dry">> ELSE <<"Mkdirp", "GetObject", "Pipe">>
      [] OTHER -> <<"Stat">> \o (IF o.dry THEN <<"Dry">> ELSE <<"Upload">>)

NoParams == [Bucket |-> "", Key |-> <<>>, SrcBucket |-> "", SrcKey |-> <<>>,
             Body |-> <<>>, Size |-> 0, Record |-> NoValue]

BucketOf(o) == IF o.bucket = "" THEN Bucket ELSE o.bucket
SourceBucketOf(o) == IF o.sourceBucket = "" THEN Bucket ELSE o.sourceBucket

\* step i of the call belongs to delete(): the whole of a delete, the second part
\* of a move
InDelete(c, i) == c.op = "delete" \/ (c.op = "move" /\ i > Len(copySteps(c.o)))

\* the params the method builds when it comes to step i, from its options as they
\* are then
ParamsAt(c, i, on) ==
    IF c.op \in {"copy", "move"} /\ ~InDelete(c, i)
    THEN [NoParams EXCEPT !.Bucket = BucketOf(on), !.Key = prefix \o on.key,
                          !.SrcBucket = SourceBucketOf(on),
                          !.SrcKey = prefix \o on.sourceKey]
    ELSE IF c.op = "move"
    THEN IF c.steps[i] = "DeleteObject" THEN c.params
         ELSE [NoParams EXCEPT !.Bucket = SourceBucketOf(on),
                               !.Key = prefix \o on.sourceKey]
    ELSE IF c.op = "update" /\ c.steps[i] = "Upload"
    THEN [c.params EXCEPT !.Body = stringify(c.data), !.Size = Len(stringify(c.data)),
                          !.Record = c.data]
    ELSE IF i > 1 THEN c.params
    ELSE [NoParams EXCEPT
            !.Bucket = BucketOf(on), !.Key = prefix \o on.key,
            !.Body = IF c.op = "put" THEN stringify(on.value) ELSE <<>>,
            !.Record = IF c.op = "put" THEN on.value ELSE NoValue,
            !.Size = IF c.op = "put" THEN Len(stringify(on.value))
                     ELSE LocalSize(on.localFile)]

PutCall(cs, id, c) == [x \in DOMAIN cs \cup {id} |-> IF x = id THEN c ELSE cs[x]]
DropCall(cs, id) == [x \in DOMAIN cs \ {id} |-> cs[x]]

\* the call comes to step i: the request is sent, or the nextTick scheduled;
\* delete() first drops the key from the cache
Enter(st, id, c, i) ==
    LET on == IF c.shared THEN st.opts ELSE c.o
        kind == c.steps[i]
        p == ParamsAt(c, i, on)
        delKey == IF c.op = "move" THEN on.sourceKey ELSE on.key
        l1 == IF InDelete(c, i) /\ kind = "HeadObject" /\ Cacheable(delKey)
                    /\ lruHas(st.lru, delKey)
              THEN lruDelete(st.lru, delKey)
              ELSE IF kind = "Hit" THEN lruGet(st.lru, on.key)
              ELSE IF c.op \in {"get", "update"} /\ i = 1 /\ Cacheable(on.key)
                        /\ lruHas(st.lru, on.key)
              THEN lruDelete(st.lru, on.key)
              ELSE st.lru
        c1 == [c EXCEPT
                !.step = i, !.params = p,
                !.resp = IF kind \in Ticks THEN "ok" ELSE "none",
                !.sent = IF kind \in S3Commands
                         THEN Append(@, [cmd |-> kind, Bucket |-> p.Bucket, Key |-> p.Key,
                                         resp |-> "none"])
                         ELSE @,
                !.data = IF kind = "Hit" THEN lruPeek(st.lru, on.key) ELSE @]
    IN  [st EXCEPT !.calls = PutCall(st.calls, id, c1), !.lru = l1]

\* the synchronous part of a method called with options o (the caller's object
\* itself when shared), up to its first step
Start(st, id, name, o, shared, cont) ==
    LET on == IF shared THEN st.opts ELSE o
        hit == Cacheable(on.key) /\ lruFresh(st.lru, on.key)
        c0 == [op |-> name, cont |-> cont, shared |-> shared, o |-> on,
               steps |-> StepsOf(name, on, hit), step |-> 0, params |-> NoParams,
               resp |-> "none", body |-> <<>>, sent |-> <<>>, data |-> NoValue,
               base |-> NoValue, raced |-> FALSE]
    IN  Enter(st, id, c0, 1)

----------------------------------------------------------------------------
(* The backend serving a request *)

PutObject(store, b, k, obj) ==
    [a \in DOMAIN store \cup {<<b, k>>} |-> IF a = <<b, k>> THEN obj ELSE store[a]]

RemoveObject(store, b, k) == [a \in DOMAIN store \ {<<b, k>>} |-> store[a]]

\* the answer to a request and the objects after it.  An object keeps, beside its
\* bytes, the record that put() serialised into them (record, NoValue for bytes
\* that did not come from put).  CopyObject of an object onto
\* itself is refused, as S3 does for a copy that changes nothing; DeleteObject of
\* a missing key succeeds.  Local steps (Stat, Mkdirp, Pipe, Read) touch nothing.
Serve(kind, p) ==
    CASE kind \in {"HeadObject", "GetObject"} ->
            IF Exists(p.Bucket, p.Key)
            THEN [resp |-> "ok", body |-> objects[<<p.Bucket, p.Key>>].body,
                  store |-> objects]
            ELSE [resp |-> "NotFound", body |-> <<>>, store |-> objects]
      [] kind = "CopyObject" ->
            IF ~Exists(p.SrcBucket, p.SrcKey)
            THEN [resp |-> "NotFound", body |-> <<>>, store |-> objects]
            ELSE IF <<p.SrcBucket, p.SrcKey>> = <<p.Bucket, p.Key>>
            THEN [resp |-> "Error", body |-> <<>>, store |-> objects]
            ELSE [resp |-> "ok", body |-> <<>>,
                  store |-> PutObject(objects, p.Bucket, p.Key,
                      [objects[<<p.SrcBucket, p.SrcKey>>] EXCEPT !.mtime = Now])]
      [] kind = "DeleteObject" ->
            [resp |-> "ok", body |-> <<>>,
             store |-> RemoveObject(objects, p.Bucket, p.Key)]
      [] kind = "Upload" ->
            [resp |-> "ok", body |-> <<>>,
             store |-> PutObject(objects, p.Bucket, p.Key,
                          [size |-> p.Size, mtime |-> Now, body |-> p.Body,
                           record |-> p.Record])]
      [] OTHER -> [resp |-> "ok", body |-> <<>>, store |-> objects]

\* a write that the backend refuses when the object changed since the call read it
WriteAccepted_IfUnchanged(c) == ~c.raced

\* the requests carry no condition on what the object holds: none is refused for
\* a write by another client
WriteAccepted(c) == TRUE

\* the backend (or the local file system) carries out the step a call waits for,
\* or fails to
backend(id) ==
    /\ id \in DOMAIN calls
    /\ calls[id].resp = "none"
    /\ LET c == calls[id]
           r == IF WriteAccepted(c) THEN Serve(c.steps[c.step], c.params)
                ELSE [resp |-> "Conflict", body |-> <<>>, store |-> objects]
           Answered(x) == IF c.steps[c.step] \in S3Commands
                          THEN [c.sent EXCEPT ![Len(c.sent)].resp = x] ELSE c.sent
       IN  \/ /\ calls' = [calls EXCEPT ![id].resp = r.resp,
                                        ![id].body = IF c.steps[c.step] = "GetObject"
                                                     THEN r.body ELSE @,
                                        ![id].sent = Answered(r.resp)]
              /\ objects' = r.store
           \/ /\ calls' = [calls EXCEPT ![id].resp = "Error",
                                        ![id].sent = Answered("Error")]
              /\ objects' = objects
    /\ UNCHANGED <<prefix, pageSize, op, opts, listing, result, cache, lru, job,
                   before, last>>

----------------------------------------------------------------------------
(* Tools.async.eachLimit (the async library) running a multi-object method *)

\* the method called for file i of the list, with the options it is given
StartItem(st, i) ==
    LET file == st.job.files[i]
        rel == Slice(file.key, Len(prefix))
        st1 == [st EXCEPT
                 !.opts.sourceKey = file.key,
                 !.opts.key = st.opts.destPath
                                \o Slice(file.key, Len(prefix) + Len(st.opts.remotePath))]
    IN  CASE op = "deleteFiles" ->
                Start(st, i, "delete", [st.opts EXCEPT !.key = rel], FALSE, i)
          [] op = "downloadFiles" ->
                Start(st, i, "downloadFile", [st.opts EXCEPT !.key = rel], FALSE, i)
          [] op = "uploadFiles" ->
                Start(st, i, "uploadFile",
                      [st.opts EXCEPT !.key = st.opts.remotePath \o file.key,
                                      !.localFile = file.key], FALSE, i)
          [] op = "copyFiles" -> Start(st1, i, "copy", st1.opts, TRUE, i)
          [] OTHER -> Start(st1, i, "move", st1.opts, TRUE, i)

RECURSIVE StartItems(_, _, _)
StartItems(st, i, k) ==
    IF k = 0 THEN st ELSE StartItems(StartItem(st, i + 1), i + 1, k - 1)

\* a final callback that is not wrapped in once()
Once_Missing(called) == FALSE

\* once(callback): the final callback runs the first time only
Once(called) == called

\* the final callback of eachLimit, which hands the outcome to the caller
FinalCallback(st, err) ==
    IF Once(st.job.called) THEN st
    ELSE [st EXCEPT
            !.job.called = TRUE,
            !.result = Returned(st.result,
                          IF err # NullErr THEN Failure(err)
                          ELSE Success(st.job.files, st.job.bytes))]

\* a replenish that starts every item that is left
Room_Unbounded(j) == Len(j.files)

\* how many more items replenish may start: while (running < limit && !done)
Room(j) == IF j.running < j.limit THEN j.limit - j.running ELSE 0

\* replenish(): starts items while fewer than limit are running and items remain
Replenish(st) ==
    LET j == st.job
        avail == Len(j.files) - j.next
        k == IF avail < Room(j) THEN avail ELSE Room(j)
        st1 == StartItems(st, j.next, k)
        running1 == j.running + k
        exhausted == running1 < j.limit
        st2 == [st1 EXCEPT !.job = [j EXCEPT !.next = @ + k, !.running = running1,
                                             !.done = exhausted]]
    IN  IF j.done THEN st
        ELSE IF exhausted /\ running1 <= 0 THEN FinalCallback(st2, NullErr)
        ELSE st2

\* the counters of the job after one more item has called back with err
Counted(j, err) ==
    [j EXCEPT !.running = @ - 1, !.completed = @ + 1,
              !.failed = IF err # NullErr THEN @ + 1 ELSE @,
              !.firstErr = IF err # NullErr /\ j.failed = 0 THEN err ELSE @]

\* an iterateeCallback that keeps the error until the running items have ended
IterateeCallback_Drain(st, err) ==
    LET j1 == [Counted(st.job, err) EXCEPT !.done = @ \/ err # NullErr]
    IN  IF j1.done /\ j1.running <= 0
        THEN FinalCallback([st EXCEPT !.job = j1], j1.firstErr)
        ELSE IF j1.done THEN [st EXCEPT !.job = j1]
        ELSE Replenish([st EXCEPT !.job = j1])

\* an iterateeCallback that ends the job as soon as no item is left to start
IterateeCallback_Early(st, err) ==
    LET j1 == Counted(st.job, err)
    IN  IF err # NullErr
        THEN FinalCallback([st EXCEPT !.job = [j1 EXCEPT !.done = TRUE]], err)
        ELSE IF j1.done \/ j1.next = Len(j1.files)
        THEN FinalCallback([st EXCEPT !.job = j1], NullErr)
        ELSE Replenish([st EXCEPT !.job = j1])

\* iterateeCallback(err) of one item
IterateeCallback(st, err) ==
    LET j1 == Counted(st.job, err)
    IN  IF err # NullErr
        THEN FinalCallback([st EXCEPT !.job = [j1 EXCEPT !.done = TRUE]], err)
        ELSE IF j1.done /\ j1.running <= 0
        THEN FinalCallback([st EXCEPT !.job = j1], NullErr)
        ELSE Replenish([st EXCEPT !.job = j1])

\* a loaded that holds the size of the last item only
Loaded_LastItem(loaded, size) == size

\* loaded += file.size
Loaded(loaded, size) == loaded + size

\* the callback the iteratee gives the method of one item, before callback(): an
\* error goes to callback(err) at once, a success is counted and reported by
\* progressHandler({ loaded, total }); progress keeps what the handler was given
\* and for which item
ItemCallback(st, i, err) ==
    IF err # NullErr THEN st
    ELSE LET l == Loaded(st.job.loaded, st.job.files[i].size)
         IN  [st EXCEPT !.job.loaded = l,
                        !.job.progress = Append(@, [loaded |-> l, total |-> st.job.total,
                                                    item |-> i])]

\* files.forEach( function(file) { total += file.size; } )
RECURSIVE TotalSize(_)
TotalSize(files) ==
    IF files = <<>> THEN 0 ELSE Head(files).size + TotalSize(Tail(files))

\* var total, loaded = 0, then eachLimit(files, threads || 1, iteratee, callback)
EachLimit(st, files, bytes, total) ==
    Replenish([st EXCEPT !.job =
        [NoJob EXCEPT !.limit = IF st.opts.threads = 0 THEN 1 ELSE st.opts.threads,
                      !.files = files, !.bytes = bytes, !.total = total]])

----------------------------------------------------------------------------
(* The handlers of a single-object call *)

ErrorCode(kind, resp) ==
    CASE resp = "NotFound" -> "NoSuchKey"
      [] kind \in S3Commands -> "StoreError"
      [] OTHER -> "LocalFsError"

\* a put() that leaves the cache alone
putCallback_NoCache(l, o) == l

\* the callback put() gives putBuffer(): a record written is a record cached
putCallback(l, o) == IF Cacheable(o.key) THEN lruSet(l, o.key, o.value) ELSE l

\* the callback get() gives getBuffer(), after JSON.parse
getCallback(l, o, json) == IF Cacheable(o.key) THEN lruSet(l, o.key, json) ELSE l

\* handlers that take every response for a success
Outcome_ErrorsIgnored(c, on) ==
    [good |-> TRUE, err |-> NullErr, data |-> NoValue, meta |-> "s3", failedAt |-> "none",
     logged |-> <<>>]

\* a logError that is called for a key that is not found as for any other failure
LogCode_NotFoundLogged(kind, resp) ==
    CASE kind \in {"HeadObject", "CopyObject"} -> <<"head">>
      [] kind = "DeleteObject" -> <<"delete">>
      [] kind \in {"GetObject", "Read"} -> <<"get">>
      [] OTHER -> <<"put">>

\* the code under which logError is called for a failure of the step: a key that is
\* not found is not logged
LogCode(kind, resp) ==
    CASE resp = "NotFound" -> <<>>
      [] kind \in {"HeadObject", "CopyObject"} -> <<"head">>
      [] kind = "DeleteObject" -> <<"delete">>
      [] kind \in {"GetObject", "Read"} -> <<"get">>
      [] kind = "Upload" -> <<"put">>
      [] kind = "Stat" -> <<"file">>
      [] kind = "Mkdirp" -> <<"dir">>
      [] OTHER -> <<"stream">>

\* the entry of key k, where it is, holding v: the cached object written to
lruReplace(l, k, v) ==
    [i \in 1..Len(l) |-> IF l[i].key = k THEN [l[i] EXCEPT !.value = v] ELSE l[i]]

\* the callback update() gives get(): the updates are applied to the object get
\* returned, which is the object the cache holds
updateCallback(l, o, data) ==
    IF Cacheable(o.key) /\ lruHas(l, o.key)
    THEN lruReplace(l, o.key, ApplyUpdates(data, o.updates)) ELSE l

\* what the call hands to its callback when it ends at the step it is at
Outcome(c, on) ==
    LET kind == c.steps[c.step]
        miss == kind = "HeadObject" /\ c.resp = "NotFound" /\ on.nonfatal
        good == c.resp = "ok" \/ miss
        json == parse(c.body)
        err == IF ~good THEN ErrorCode(kind, c.resp)
               ELSE IF kind = "Read" /\ ~json.ok THEN "ParseError" ELSE NullErr
    IN  [good |-> good, err |-> err,
         data |-> IF err # NullErr THEN NoValue
                  ELSE IF kind = "Hit" THEN c.data
                  ELSE IF kind = "Read" THEN json.val
                  ELSE IF c.op = "update" THEN c.data ELSE NoValue,
         meta |-> IF err # NullErr \/ miss THEN "null"
                  ELSE IF kind = "Hit" THEN "cached"
                  ELSE IF kind = "Dry" THEN "dry" ELSE "s3",
         failedAt |-> IF err # NullErr THEN kind ELSE "none",
         logged |-> IF ~good THEN LogCode(kind, c.resp)
                    ELSE IF err # NullErr THEN <<"json">> ELSE <<>>]

\* the response to the step a call waits for arrives: the method goes on to its
\* next step, or ends and calls back, the caller or eachLimit
respond(id) ==
    /\ id \in DOMAIN calls
    /\ calls[id].resp # "none"
    /\ LET c == calls[id]
           on == IF c.shared THEN opts ELSE c.o
           out == Outcome(c, on)
           kind == c.steps[c.step]
           fetched == IF kind = "Read" THEN getCallback(lru, c.o, out.data) ELSE lru
           l1 == IF out.err # NullErr THEN lru
                 ELSE IF c.op = "put" THEN putCallback(lru, c.o)
                 ELSE IF c.op = "update"
                 THEN putCallback(lru, [c.o EXCEPT !.value = c.data])
                 ELSE IF c.op = "get" THEN fetched ELSE lru
           st == [calls |-> calls, opts |-> opts, lru |-> lru, job |-> job,
                  result |-> result]
           ended == [st EXCEPT !.calls = DropCall(calls, id), !.lru = l1]
           st1 == IF out.err = NullErr /\ c.step < Len(c.steps)
                  THEN IF c.op = "update" /\ kind \in {"Hit", "Read"}
                       THEN Enter([st EXCEPT !.lru = updateCallback(fetched, c.o, out.data)],
                                  id, [c EXCEPT !.data = ApplyUpdates(out.data, c.o.updates),
                                               !.base = out.data],
                                  c.step + 1)
                       ELSE Enter(st, id, c, c.step + 1)
                  ELSE IF c.cont = 0
                  THEN [ended EXCEPT !.result = Returned(result,
                           [NoResult EXCEPT !.state = "returned", !.err = out.err,
                                            !.nulls = out.err # NullErr,
                                            !.data = out.data, !.meta = out.meta,
                                            !.sent = c.sent, !.failedAt = out.failedAt,
                                            !.base = c.base, !.read = c.body,
                                            !.logged = out.logged, !.raced = c.raced])]
                  ELSE IF c.cont < 0 THEN ended
                  ELSE IterateeCallback(ItemCallback(ended, c.cont, out.err), out.err)
       IN  /\ calls' = st1.calls
           /\ opts' = st1.opts
           /\ lru' = st1.lru
           /\ job' = st1.job
           /\ result' = st1.result
    /\ UNCHANGED <<objects, prefix, pageSize, op, listing, cache, before, last>>

\* the caller invokes a single-object method with options o
invoke(name, o) ==
    /\ op = "none"
    /\ op' = name
    /\ LET st == Start([calls |-> calls, opts |-> o, lru |-> lru], 0, name, o, FALSE, 0)
       IN  calls' = st.calls /\ lru' = st.lru
    /\ opts' = o
    /\ result' = [NoResult EXCEPT !.state = "pending"]
    /\ before' = objects
    /\ UNCHANGED <<objects, prefix, pageSize, listing, cache, job, last>>

put(o) == invoke("put", o)
get(o) == invoke("get", o)
head(o) == invoke("head", o)
copy(o) == invoke("copy", o)
move(o) == invoke("move", o)
delete(o) == invoke("delete", o)
update(o) == invoke("update", o)
uploadFile(o) == invoke("uploadFile", o)

\* the caller invokes a method and goes on without waiting for its callback, which
\* does nothing: the call is in flight while the caller makes its next calls
detached(name, o) ==
    /\ op = "none"
    /\ 1 \notin DOMAIN calls
    /\ LET st == Start([calls |-> calls, opts |-> o, lru |-> lru], 1, name, o, FALSE, -1)
       IN  calls' = st.calls /\ lru' = st.lru
    /\ UNCHANGED <<objects, prefix, pageSize, op, opts, listing, result, cache, job,
                   before, last>>

\* time passes: every entry of the cache is older by one unit (an age beyond
\* maxAge is not told from maxAge)
tick ==
    /\ cache.maxAge > 0
    /\ \E i \in 1..Len(lru) : lru[i].age < cache.maxAge
    /\ lru' = [i \in 1..Len(lru) |->
                 [lru[i] EXCEPT !.age = IF @ < cache.maxAge THEN @ + 1 ELSE @]]
    /\ UNCHANGED <<objects, prefix, pageSize, op, opts, listing, result, calls, cache,
                   job, before, last>>

\* the caller's callback has run: the caller is free to make its next call
return ==
    /\ op # "none"
    /\ result.state = "returned"
    /\ calls = NoCalls
    /\ op' = "none"
    /\ last' = [op |-> op, o |-> opts, err |-> result.err, data |-> result.data,
                files |-> IF op = "walk" THEN listing.files ELSE result.files,
                asked |-> listing.asked]
    /\ result' = NoResult
    /\ UNCHANGED <<objects, prefix, pageSize, opts, listing, calls, cache, lru, job,
                   before>>

----------------------------------------------------------------------------
(* The states the listing starts from *)

Prefixes == {<<>>, <<"p", "/">>}

\* objects the backend may hold under the client's prefix: key, size, mtime
Candidates ==
    { [key |-> <<"a">>, size |-> 1, mtime |-> 1],
      [key |-> <<"d", "/">>, size |-> 0, mtime |-> 1],
      [key |-> <<"d", "/">>, size |-> 2, mtime |-> 2],
      [key |-> <<"d", "/", "a">>, size |-> 2, mtime |-> 2],
      [key |-> <<"b">>, size |-> 0, mtime |-> 2],
      [key |-> <<"a", "/", "b">>, size |-> 3, mtime |-> 1] }

\* one object per key at most
Backends == {S \in SUBSET Candidates : \A x, y \in S : x.key = y.key => x = y}

StoreOf(p, S) ==
    [a \in {<<Bucket, p \o c.key>> : c \in S} |->
        LET c == CHOOSE c \in S : a = <<Bucket, p \o c.key>>
        IN  [size |-> c.size, mtime |-> c.mtime, body |-> <<>>, record |-> NoValue]]

ListOpts ==
    {[DefaultOpts EXCEPT !.remotePath = r, !.filespec = s, !.filter = f, !.older = n,
                         !.emptyFolders = e] :
        r \in {<<>>, <<"d", "/">>}, s \in {"unset", "a"}, f \in {"unset", "user"},
        n \in {0, 1}, e \in BOOLEAN}

CacheOff == [on |-> FALSE, maxItems |-> 0, maxAge |-> 0, keyMatch |-> "all"]

InitList ==
    /\ prefix \in Prefixes
    /\ pageSize \in 1..MaxPage
    /\ \E S \in Backends : objects = StoreOf(prefix, S)
    /\ op = "none"
    /\ opts \in ListOpts
    /\ listing = NoListing
    /\ result = NoResult
    /\ calls = NoCalls
    /\ cache = CacheOff
    /\ lru = <<>>
    /\ job = NoJob
    /\ before = objects
    /\ last = NoLast

NextList ==
    \/ list(opts)
    \/ listThen
    \/ listCatch
    \/ listCallback

SpecList == InitList /\ [][NextList]_vars

----------------------------------------------------------------------------
(* A caller listing and walking the same path with the same options, again and
   again *)

WalkOpts ==
    {[DefaultOpts EXCEPT !.remotePath = r, !.filespec = s, !.filter = f, !.older = n,
                         !.emptyFolders = e] :
        r \in {<<>>, <<"d", "/">>}, s \in {"unset", "a", "d"}, f \in {"unset", "user"},
        n \in {0, 1}, e \in BOOLEAN}

\* the options the caller passes: those of the first call, without the defaults
\* that list() and walk() have written into the object since
CallerOpts ==
    [opts EXCEPT !.filter = listing.given.filter, !.older = listing.given.older,
                 !.filespec = listing.given.filespec]

InitWalk ==
    /\ prefix = <<"p", "/">>
    /\ pageSize \in 1..MaxPage
    /\ \E S \in Backends : objects = StoreOf(prefix, S)
    /\ op = "none"
    /\ opts \in WalkOpts
    /\ listing = [NoListing EXCEPT !.given = Given(opts)]
    /\ result = NoResult
    /\ calls = NoCalls
    /\ cache = CacheOff
    /\ lru = <<>>
    /\ job = NoJob
    /\ before = objects
    /\ last = NoLast

NextWalk ==
    \/ list(CallerOpts)
    \/ walk(CallerOpts)
    \/ listThen
    \/ listCatch
    \/ listCallback
    \/ walkCallback
    \/ return

SpecWalk == InitWalk /\ [][NextWalk]_vars

(***************************************************************************)
(* list called again and again with one options object: each call is given *)
(* the object as the call before left it.                                  *)
(***************************************************************************)
NextRepeat ==
    \/ list(opts)
    \/ listThen
    \/ listCatch
    \/ listCallback
    \/ return

SpecRepeat == InitList /\ [][NextRepeat]_vars

----------------------------------------------------------------------------
(* A caller making single-object calls one after the other *)

Keys == {<<"a">>, <<"b">>}

\* the JSON records the caller stores
Values == {JObj(<<>>), JObj(<<JMember("a", JObj(<<JMember("b", JNull)>>))>>)}

\* what an object of the bucket may hold at first: a record, or text that is not JSON
NotJSON == <<"{">>
Bodies == {stringify(v) : v \in Values} \cup {NotJSON}

KVStores ==
    UNION {[{<<Bucket, prefix \o k>> : k \in K} -> Bodies] : K \in SUBSET Keys}

KVStoreOf(f) ==
    [a \in DOMAIN f |-> [size |-> Len(f[a]), mtime |-> 1, body |-> f[a],
                         record |-> NoValue]]

Caches ==
    { CacheOff,
      [on |-> TRUE, maxItems |-> 0, maxAge |-> 0, keyMatch |-> "all"],
      [on |-> TRUE, maxItems |-> 0, maxAge |-> 0, keyMatch |-> "a"] }

PutOpts == {[DefaultOpts EXCEPT !.key = k, !.value = v, !.dry = d] :
                k \in Keys, v \in Values, d \in BOOLEAN}
GetOpts == {[DefaultOpts EXCEPT !.key = k] : k \in Keys}
HeadOpts == {[DefaultOpts EXCEPT !.key = k, !.nonfatal = n] : k \in Keys, n \in BOOLEAN}
DeleteOpts == {[DefaultOpts EXCEPT !.key = k, !.dry = d] : k \in Keys, d \in BOOLEAN}
CopyOpts == {[DefaultOpts EXCEPT !.key = k, !.sourceKey = s, !.dry = d] :
                k \in Keys, s \in Keys, d \in BOOLEAN}

InitKV ==
    /\ prefix = <<"p", "/">>
    /\ pageSize = 1
    /\ \E f \in KVStores : objects = KVStoreOf(f)
    /\ op = "none"
    /\ opts = DefaultOpts
    /\ listing = NoListing
    /\ result = NoResult
    /\ calls = NoCalls
    /\ cache = CacheOff
    /\ lru = <<>>
    /\ job = NoJob
    /\ before = objects
    /\ last = NoLast

NextKV ==
    \/ \E o \in PutOpts : put(o)
    \/ \E o \in GetOpts : get(o)
    \/ \E o \in HeadOpts : head(o)
    \/ \E o \in CopyOpts : copy(o)
    \/ \E o \in CopyOpts : move(o)
    \/ \E o \in DeleteOpts : delete(o)
    \/ backend(0)
    \/ respond(0)
    \/ return

SpecKV == InitKV /\ [][NextKV]_vars

----------------------------------------------------------------------------
(* A caller storing, fetching and deleting records, with or without the cache *)

InitCache ==
    /\ prefix = <<"p", "/">>
    /\ pageSize = 1
    /\ \E f \in KVStores : objects = KVStoreOf(f)
    /\ op = "none"
    /\ opts = DefaultOpts
    /\ listing = NoListing
    /\ result = NoResult
    /\ calls = NoCalls
    /\ cache \in Caches
    /\ lru = <<>>
    /\ job = NoJob
    /\ before = objects
    /\ last = NoLast

NextCache ==
    \/ \E o \in PutOpts : put(o)
    \/ \E o \in GetOpts : get(o)
    \/ \E o \in DeleteOpts : delete(o)
    \/ backend(0)
    \/ respond(0)
    \/ return

SpecCache == InitCache /\ [][NextCache]_vars

----------------------------------------------------------------------------
(* A caller storing records and asking for their metadata, with or without the
   cache *)

NextHead ==
    \/ \E o \in PutOpts : put(o)
    \/ \E o \in HeadOpts : head(o)
    \/ backend(0)
    \/ respond(0)
    \/ return

SpecHead == InitCache /\ [][NextHead]_vars

----------------------------------------------------------------------------
(* A caller storing, fetching and copying records, with or without the cache *)

NextCopy ==
    \/ \E o \in {p \in PutOpts : ~p.dry} : put(o)
    \/ \E o \in GetOpts : get(o)
    \/ \E o \in {c \in CopyOpts : ~c.dry} : copy(o)
    \/ backend(0)
    \/ respond(0)
    \/ return

SpecCopy == InitCache /\ [][NextCopy]_vars

----------------------------------------------------------------------------
(* A caller updating and fetching records *)

\* the records the bucket holds at first
URecords ==
    { JObj(<<JMember("a", JNum(1)), JMember("b", JNum(2))>>),
      JObj(<<>>),
      JObj(<<JMember("a", JObj(<<JMember("b", JNum(1))>>))>>) }

\* opts.updates: the properties in the order the caller wrote them; a value of
\* undefined asks for the property to be deleted
UpdateSets ==
    { << [path |-> <<"b">>, value |-> NoValue], [path |-> <<"c">>, value |-> JNum(3)] >>,
      << [path |-> <<"a", "b">>, value |-> JNum(5)] >>,
      << [path |-> <<"a">>, value |-> JNum(7)] >> }

\* the key of the record that is updated
UKey == <<"a">>

UStores ==
    UNION {[{<<Bucket, prefix \o k>> : k \in K} ->
                {stringify(v) : v \in URecords} \cup {<<"{">>}] : K \in SUBSET {UKey}}

UpdateOpts == {[DefaultOpts EXCEPT !.key = UKey, !.updates = u, !.dry = d] :
                  u \in UpdateSets, d \in BOOLEAN}

InitUpdate ==
    /\ prefix = <<"p", "/">>
    /\ pageSize = 1
    /\ \E f \in UStores : objects = KVStoreOf(f)
    /\ op = "none"
    /\ opts = DefaultOpts
    /\ listing = NoListing
    /\ result = NoResult
    /\ calls = NoCalls
    /\ cache \in {c \in Caches : c.keyMatch = "all"}
    /\ lru = <<>>
    /\ job = NoJob
    /\ before = objects
    /\ last = NoLast

NextUpdate ==
    \/ \E o \in UpdateOpts : update(o)
    \/ get([DefaultOpts EXCEPT !.key = UKey])
    \/ backend(0)
    \/ respond(0)
    \/ return

SpecUpdate == InitUpdate /\ [][NextUpdate]_vars

----------------------------------------------------------------------------
(* An update racing with the put of another client *)

\* the record the other client writes
OtherRecord == JObj(<<JMember("c", JNum(9))>>)

\* update's get has read the record and update's put is not yet written
InWindow(c) ==
    /\ c.op = "update"
    /\ \/ c.steps[c.step] = "GetObject" /\ c.resp = "ok"
       \/ c.steps[c.step] \in {"Read", "Hit"}
       \/ c.steps[c.step] = "Upload" /\ c.resp = "none"

\* the put of another client takes effect at the backend, between the get and
\* the put of the update in progress
otherPut ==
    /\ 0 \in DOMAIN calls
    /\ InWindow(calls[0]) /\ ~calls[0].raced
    /\ objects' = PutObject(objects, Bucket, prefix \o UKey,
                      [size |-> Len(stringify(OtherRecord)), mtime |-> Now,
                       body |-> stringify(OtherRecord), record |-> OtherRecord])
    /\ calls' = [calls EXCEPT ![0].raced = TRUE]
    /\ UNCHANGED <<prefix, pageSize, op, opts, listing, result, cache, lru, job,
                   before, last>>

NextRace ==
    \/ \E o \in UpdateOpts : update(o)
    \/ get([DefaultOpts EXCEPT !.key = UKey])
    \/ otherPut
    \/ backend(0)
    \/ respond(0)
    \/ return

SpecRace == InitUpdate /\ [][NextRace]_vars

----------------------------------------------------------------------------
(* A caller deleting a record while a get or a put of its key is in flight, the
   cache enabled *)

EvictOpts == [DefaultOpts EXCEPT !.key = UKey]

InitEvict ==
    /\ prefix = <<"p", "/">>
    /\ pageSize = 1
    /\ \E K \in SUBSET {UKey} :
          \E f \in [{<<Bucket, prefix \o k>> : k \in K} -> Bodies] :
             objects = KVStoreOf(f)
    /\ op = "none"
    /\ opts = DefaultOpts
    /\ listing = NoListing
    /\ result = NoResult
    /\ calls = NoCalls
    /\ cache = [on |-> TRUE, maxItems |-> 0, maxAge |-> 0, keyMatch |-> "all"]
    /\ lru = <<>>
    /\ job = NoJob
    /\ before = objects
    /\ last = NoLast

NextEvict ==
    \/ detached("get", EvictOpts)
    \/ \E v \in Values : detached("put", [EvictOpts EXCEPT !.value = v])
    \/ \E d \in BOOLEAN : delete([EvictOpts EXCEPT !.dry = d])
    \/ get(EvictOpts)
    \/ \E id \in DOMAIN calls : backend(id)
    \/ \E id \in DOMAIN calls : respond(id)
    \/ return

SpecEvict == InitEvict /\ [][NextEvict]_vars

(***************************************************************************)
(* One client with the cache enabled and no other writer: get and put of   *)
(* one key, two calls at a time, the backend serving the requests and the  *)
(* responses arriving in any order.                                        *)
(***************************************************************************)
NextCoherent ==
    \/ detached("get", EvictOpts)
    \/ \E v \in Values : detached("put", [EvictOpts EXCEPT !.value = v])
    \/ get(EvictOpts)
    \/ \E v \in Values : put([EvictOpts EXCEPT !.value = v])
    \/ \E id \in DOMAIN calls : backend(id)
    \/ \E id \in DOMAIN calls : respond(id)
    \/ return

SpecCoherent == InitEvict /\ [][NextCoherent]_vars

----------------------------------------------------------------------------
(* A caller storing and fetching a record while time passes, cache.maxAge set *)

InitTTL ==
    /\ prefix = <<"p", "/">>
    /\ pageSize = 1
    /\ \E K \in SUBSET {UKey} :
          \E f \in [{<<Bucket, prefix \o k>> : k \in K} -> Bodies] :
             objects = KVStoreOf(f)
    /\ op = "none"
    /\ opts = DefaultOpts
    /\ listing = NoListing
    /\ result = NoResult
    /\ calls = NoCalls
    /\ cache = [on |-> TRUE, maxItems |-> 0, maxAge |-> MaxAge, keyMatch |-> "all"]
    /\ lru = <<>>
    /\ job = NoJob
    /\ before = objects
    /\ last = NoLast

NextTTL ==
    \/ \E v \in Values : put([EvictOpts EXCEPT !.value = v])
    \/ get(EvictOpts)
    \/ tick
    \/ backend(0)
    \/ respond(0)
    \/ return

SpecTTL == InitTTL /\ [][NextTTL]_vars

(***************************************************************************)
(* One client with the cache enabled, used for one key in two buckets: its *)
(* own and one that opts.bucket names; one call at a time, no dry runs.    *)
(***************************************************************************)
OtherBucket == "other"
BucketOpts == {[EvictOpts EXCEPT !.bucket = b] : b \in {"", OtherBucket}}

InitBuckets ==
    /\ prefix = <<"p", "/">>
    /\ pageSize = 1
    /\ \E B \in SUBSET {Bucket, OtherBucket} :
          \E f \in [{<<b, prefix \o UKey>> : b \in B} -> Bodies] :
             objects = KVStoreOf(f)
    /\ op = "none"
    /\ opts = DefaultOpts
    /\ listing = NoListing
    /\ result = NoResult
    /\ calls = NoCalls
    /\ cache = [on |-> TRUE, maxItems |-> 0, maxAge |-> 0, keyMatch |-> "all"]
    /\ lru = <<>>
    /\ job = NoJob
    /\ before = objects
    /\ last = NoLast

NextBuckets ==
    \/ \E o \in BucketOpts : \E v \in Values : put([o EXCEPT !.value = v])
    \/ \E o \in BucketOpts : get(o)
    \/ backend(0)
    \/ respond(0)
    \/ return

SpecBuckets == InitBuckets /\ [][NextBuckets]_vars

(***************************************************************************)
(* A cache of MaxItems entries and one key more than it holds: put and get *)
(* of these keys, one call at a time, on a bucket that is empty at first.  *)
(***************************************************************************)
CapNames == <<"a", "b", "c", "d", "e">>
CapKeys == {<<CapNames[i]>> : i \in 1..(MaxItems + 1)}
CapValue == JObj(<<>>)

InitCap ==
    /\ prefix = <<"p", "/">>
    /\ pageSize = 1
    /\ objects = KVStoreOf(<<>>)
    /\ op = "none"
    /\ opts = DefaultOpts
    /\ listing = NoListing
    /\ result = NoResult
    /\ calls = NoCalls
    /\ cache = [on |-> TRUE, maxItems |-> MaxItems, maxAge |-> 0, keyMatch |-> "all"]
    /\ lru = <<>>
    /\ job = NoJob
    /\ before = objects
    /\ last = NoLast

NextCap ==
    \/ \E k \in CapKeys : put([DefaultOpts EXCEPT !.key = k, !.value = CapValue])
    \/ \E k \in CapKeys : get([DefaultOpts EXCEPT !.key = k])
    \/ backend(0)
    \/ respond(0)
    \/ return

SpecCap == InitCap /\ [][NextCap]_vars

----------------------------------------------------------------------------
(* The multi-object methods *)

ListDriven == {"deleteFiles", "downloadFiles", "copyFiles", "moveFiles"}

\* path.replace(/\/$/, '')
StripSlash(k) == IF EndsWithSlash(k) THEN SubSeq(k, 1, Len(k) - 1) ELSE k

\* the caller invokes a method that lists the objects and works on each
multi(name, o) ==
    /\ op = "none"
    /\ op' = name
    /\ listBegin(IF name \in {"copyFiles", "moveFiles"}
                 THEN [o EXCEPT !.emptyFolders = TRUE] ELSE o)
    /\ before' = objects
    /\ UNCHANGED <<objects, prefix, pageSize, calls, cache, lru, job, last>>

deleteFiles(o) == multi("deleteFiles", o)
downloadFiles(o) == multi("downloadFiles", o)
copyFiles(o) == multi("copyFiles", o)
moveFiles(o) == multi("moveFiles", o)

\* the callback these methods give list(): the error, or eachLimit over the files
filesCallback ==
    /\ op \in ListDriven
    /\ listing.pc \in {"tick", "tickerr"}
    /\ listing' = [listing EXCEPT !.pc = "idle"]
    /\ IF listing.pc = "tickerr"
       THEN /\ result' = Returned(result, Failure("StoreError"))
            /\ UNCHANGED <<calls, opts, lru, job>>
       ELSE LET o1 == IF op = "downloadFiles"
                      THEN [opts EXCEPT !.remotePath = StripSlash(@)] ELSE opts
                st == EachLimit([calls |-> calls, opts |-> o1, lru |-> lru, job |-> job,
                                 result |-> result],
                                listing.files, listing.total_bytes, listing.total_bytes)
            IN  /\ calls' = st.calls
                /\ opts' = st.opts
                /\ lru' = st.lru
                /\ job' = st.job
                /\ result' = st.result
    /\ UNCHANGED <<objects, prefix, pageSize, op, cache, before, last>>

\* the caller invokes uploadFiles(o): the local directory is scanned
uploadFiles(o) ==
    /\ op = "none"
    /\ op' = "uploadFiles"
    /\ opts' = [o EXCEPT !.remotePath = StripSlash(@)]
    /\ listing' = [NoListing EXCEPT !.pc = "scan"]
    /\ result' = [result EXCEPT !.state = "pending"]
    /\ before' = objects
    /\ UNCHANGED <<objects, prefix, pageSize, calls, cache, lru, job, last>>

\* the callback of Tools.findFiles: the error, or eachLimit over the files found,
\* the first n of LocalFiles
findFilesCallback ==
    /\ op = "uploadFiles"
    /\ listing.pc = "scan"
    /\ \/ /\ result' = Returned(result, Failure("LocalFsError"))
          /\ listing' = [listing EXCEPT !.pc = "idle"]
          /\ UNCHANGED <<calls, opts, lru, job>>
       \/ \E n \in 0..Len(LocalFiles) :
            LET files == SubSeq(LocalFiles, 1, n)
                st == EachLimit([calls |-> calls, opts |-> opts, lru |-> lru,
                                 job |-> job, result |-> result], files, 0,
                                TotalSize(files))
            IN  /\ listing' = [listing EXCEPT !.pc = "idle", !.files = files]
                /\ calls' = st.calls
                /\ opts' = st.opts
                /\ lru' = st.lru
                /\ job' = st.job
                /\ result' = st.result
    /\ UNCHANGED <<objects, prefix, pageSize, op, cache, before, last>>

\* the objects the bucket may hold when a multi-object method is called
Chain ==
    << [key |-> <<"a">>, size |-> 1, mtime |-> 1],
       [key |-> <<"b">>, size |-> 2, mtime |-> 1],
       [key |-> <<"d", "/">>, size |-> 0, mtime |-> 1],
       [key |-> <<"d", "/", "a">>, size |-> 3, mtime |-> 1],
       [key |-> <<"d", "/", "b">>, size |-> 1, mtime |-> 1] >>

FirstOf(n) == {Chain[i] : i \in 1..(IF n < Len(Chain) THEN n ELSE Len(Chain))}

MultiOpts ==
    {[DefaultOpts EXCEPT !.remotePath = r, !.destPath = <<"x", "/">>, !.threads = t,
                         !.dry = d] :
        r \in {<<>>, <<"d", "/">>}, t \in 0..MaxThreads, d \in BOOLEAN}

InitMulti ==
    /\ prefix \in Prefixes
    /\ pageSize = MaxPage
    /\ \E n \in 0..MaxFiles : objects = StoreOf(prefix, FirstOf(n))
    /\ op = "none"
    /\ opts = DefaultOpts
    /\ listing = NoListing
    /\ result = NoResult
    /\ calls = NoCalls
    /\ cache = CacheOff
    /\ lru = <<>>
    /\ job = NoJob
    /\ before = objects
    /\ last = NoLast

NextMulti ==
    \/ \E o \in MultiOpts : deleteFiles(o)
    \/ \E o \in MultiOpts : downloadFiles(o)
    \/ \E o \in MultiOpts : copyFiles(o)
    \/ \E o \in MultiOpts : moveFiles(o)
    \/ \E o \in MultiOpts : uploadFiles(o)
    \/ listThen
    \/ listCatch
    \/ filesCallback
    \/ findFilesCallback
    \/ \E id \in DOMAIN calls : backend(id)
    \/ \E id \in DOMAIN calls : respond(id)

SpecMulti == InitMulti /\ [][NextMulti]_vars

(***************************************************************************)
(* One call of list or of walk, whose requests are answered and whose      *)
(* nextTick callbacks run: a request that is sent is settled by the        *)
(* backend, as a page or as a failure, and a scheduled callback is called. *)
(***************************************************************************)
PagesOpts ==
    {[DefaultOpts EXCEPT !.remotePath = r, !.filespec = s, !.emptyFolders = e] :
        r \in {<<>>, <<"d", "/">>}, s \in {"unset", "a"}, e \in BOOLEAN}

InitPages ==
    /\ prefix = <<"p", "/">>
    /\ pageSize \in 1..MaxPage
    /\ \E n \in 0..MaxFiles : objects = StoreOf(prefix, FirstOf(n))
    /\ op = "none"
    /\ opts = DefaultOpts
    /\ listing = NoListing
    /\ result = NoResult
    /\ calls = NoCalls
    /\ cache = CacheOff
    /\ lru = <<>>
    /\ job = NoJob
    /\ before = objects
    /\ last = NoLast

NextPages ==
    \/ \E o \in PagesOpts : list(o)
    \/ \E o \in PagesOpts : walk(o)
    \/ listThen
    \/ listCatch
    \/ listCallback
    \/ walkCallback

SpecPages ==
    /\ InitPages /\ [][NextPages]_vars
    /\ WF_vars(listCatch \/ listThen)
    /\ WF_vars(listCallback) /\ WF_vars(walkCallback)

----------------------------------------------------------------------------
(* Every method that takes opts.dry, called once, as a dry run or not *)

DryOpts ==
    {[DefaultOpts EXCEPT !.key = k, !.sourceKey = <<"a">>, !.value = JObj(<<>>),
                         !.updates = u, !.localFile = LocalFiles[1].key,
                         !.destPath = <<"x", "/">>, !.threads = 1, !.dry = d] :
        k \in Keys, u \in UpdateSets, d \in BOOLEAN}

NextDry ==
    \/ \E o \in DryOpts : put(o)
    \/ \E o \in DryOpts : update(o)
    \/ \E o \in DryOpts : copy(o)
    \/ \E o \in DryOpts : move(o)
    \/ \E o \in DryOpts : delete(o)
    \/ \E o \in DryOpts : uploadFile(o)
    \/ \E o \in DryOpts : deleteFiles(o)
    \/ \E o \in DryOpts : copyFiles(o)
    \/ \E o \in DryOpts : moveFiles(o)
    \/ \E o \in DryOpts : uploadFiles(o)
    \/ listThen
    \/ listCatch
    \/ filesCallback
    \/ findFilesCallback
    \/ \E id \in DOMAIN calls : backend(id)
    \/ \E id \in DOMAIN calls : respond(id)

SpecDry == InitKV /\ [][NextDry]_vars

----------------------------------------------------------------------------
(* list and the methods that list through it, over a bucket with a folder marker *)

FolderOpts ==
    {[DefaultOpts EXCEPT !.destPath = <<"x", "/">>, !.threads = 1, !.filespec = s,
                         !.emptyFolders = e] :
        s \in {"unset", "d", "a"}, e \in BOOLEAN}

InitFolders ==
    /\ prefix \in Prefixes
    /\ pageSize = MaxPage
    /\ \E n \in 2..MaxFiles : objects = StoreOf(prefix, FirstOf(n))
    /\ op = "none"
    /\ opts = DefaultOpts
    /\ listing = NoListing
    /\ result = NoResult
    /\ calls = NoCalls
    /\ cache = CacheOff
    /\ lru = <<>>
    /\ job = NoJob
    /\ before = objects
    /\ last = NoLast

NextFolders ==
    \/ \E o \in FolderOpts : list(o)
    \/ \E o \in FolderOpts : deleteFiles(o)
    \/ \E o \in FolderOpts : downloadFiles(o)
    \/ \E o \in FolderOpts : copyFiles(o)
    \/ \E o \in FolderOpts : moveFiles(o)
    \/ listThen
    \/ listCatch
    \/ listCallback
    \/ filesCallback
    \/ \E id \in DOMAIN calls : backend(id)
    \/ \E id \in DOMAIN calls : respond(id)

SpecFolders == InitFolders /\ [][NextFolders]_vars

----------------------------------------------------------------------------
(* list and the methods that list through it, called with a filter, with older,
   with both or with neither *)

FilterOpts ==
    {[DefaultOpts EXCEPT !.destPath = <<"x", "/">>, !.threads = 1, !.filter = f,
                         !.older = n] :
        f \in {"unset", "user"}, n \in {0, 1}}

InitFilter ==
    /\ prefix \in Prefixes
    /\ pageSize = 1
    /\ \E n \in 0..2 : objects = StoreOf(prefix, FirstOf(n))
    /\ op = "none"
    /\ opts = DefaultOpts
    /\ listing = NoListing
    /\ result = NoResult
    /\ calls = NoCalls
    /\ cache = CacheOff
    /\ lru = <<>>
    /\ job = NoJob
    /\ before = objects
    /\ last = NoLast

NextFilter ==
    \/ \E o \in FilterOpts : list(o)
    \/ \E o \in FilterOpts : deleteFiles(o)
    \/ \E o \in FilterOpts : downloadFiles(o)
    \/ \E o \in FilterOpts : copyFiles(o)
    \/ \E o \in FilterOpts : moveFiles(o)
    \/ listThen
    \/ listCatch
    \/ listCallback
    \/ filesCallback
    \/ \E id \in DOMAIN calls : backend(id)
    \/ \E id \in DOMAIN calls : respond(id)

SpecFilter == InitFilter /\ [][NextFilter]_vars

----------------------------------------------------------------------------
(* Claims about list *)

\* the call passed no filespec, no filter and no older
PlainListing == opts.filespec = "all" /\ opts.filter = "true" /\ opts.older = 0

\* list has called back, and not with a failure of the backend
ListReturned == op = "list" /\ result.state = "returned" /\ result.err # "StoreError"

\* the objects stored under the listed prefix, in key order
StoredUnder(Prefix) ==
    LET ks == SortKeys({k \in {x[2] : x \in {y \in DOMAIN objects : y[1] = Bucket}} :
                           StartsWith(k, Prefix)})
    IN  [i \in 1..Len(ks) |-> [key |-> ks[i], size |-> objects[<<Bucket, ks[i]>>].size,
                                mtime |-> objects[<<Bucket, ks[i]>>].mtime]]

IsFolderMarker(f) == f.size = 0 /\ EndsWithSlash(f.key)

StoredFiles(Prefix, markers) ==
    LET Keep(f) == markers \/ ~IsFolderMarker(f)
    IN  SelectSeq(StoredUnder(Prefix), Keep)

\* C1 as stated: a listing with no filespec, filter or older returns, without error,
\* exactly one descriptor for every object stored under the prefix, whatever the
\* number of objects and the page size.
C1_AllStoredObjects ==
    (ListReturned /\ PlainListing) =>
        /\ result.err = NullErr /\ ~result.nulls
        /\ result.files = StoredFiles(prefix \o opts.remotePath, TRUE)
        /\ result.bytes = SumSizes(result.files)

\* C1 (amended): a listing with no filespec, filter or older returns, without error,
\* exactly one descriptor, in key order, for every object stored under the prefix
\* that is not a zero-byte folder marker (a key ending in '/'), and for those too
\* when emptyFolders is set; an empty prefix gives files = [] and bytes = 0.
C1_PaginationComplete ==
    (ListReturned /\ PlainListing) =>
        /\ result.err = NullErr /\ ~result.nulls
        /\ result.files = StoredFiles(prefix \o opts.remotePath, opts.emptyFolders)
        /\ result.bytes = SumSizes(result.files)
        /\ StoredUnder(prefix \o opts.remotePath) = <<>> =>
                result.files = <<>> /\ result.bytes = 0

\* a listing of more objects than two pages hold, all of them returned
C1_Witness ==
    /\ ListReturned /\ PlainListing
    /\ listing.num_calls >= 3
    /\ Len(result.files) >= 4
    /\ Len(result.files) > listing.num_calls

----------------------------------------------------------------------------
(* Claims about delete and move *)

\* the address in the backend of the caller's key k
Addr(o, k) == <<BucketOf(o), prefix \o k>>

Requests(cmd, trace) == {i \in 1..Len(trace) : trace[i].cmd = cmd}

\* the requests the open call has sent so far, or had sent when it called back
SentSoFar == IF 0 \in DOMAIN calls THEN calls[0].sent ELSE result.sent

\* the caller has called delete, not as a dry run, for a key the backend lacks
DeleteOfAbsent == op = "delete" /\ ~opts.dry /\ Addr(opts, opts.key) \notin DOMAIN before

MoveReturned == op = "move" /\ result.state = "returned"

\* the backend made the copy that move asked for
CopySucceeded == Len(result.sent) >= 1 /\ result.sent[1] =
    [cmd |-> "CopyObject", Bucket |-> BucketOf(opts), Key |-> prefix \o opts.key,
     resp |-> "ok"]

\* the backend did not make the copy that move asked for
CopyFailed == Len(result.sent) >= 1 /\ result.sent[1].cmd = "CopyObject"
                  /\ result.sent[1].resp # "ok"

\* C7: when the copy of a move succeeds and the delete of the source after it
\* fails, the source and the destination both exist afterwards, the only requests
\* after the copy are the head and the delete of the source (no rollback), and the
\* error returned is the failure of the delete step; when the copy fails, no
\* further request is sent and the backend is as it was before the call.
C7_MoveNotAtomic ==
    MoveReturned =>
        /\ (CopySucceeded /\ result.err # NullErr) =>
              /\ Addr(opts, opts.sourceKey) \in DOMAIN objects
              /\ Addr(opts, opts.key) \in DOMAIN objects
              /\ objects[Addr(opts, opts.sourceKey)] = before[Addr(opts, opts.sourceKey)]
              /\ objects[Addr(opts, opts.key)].body = before[Addr(opts, opts.sourceKey)].body
              /\ \A i \in 2..Len(result.sent) :
                    /\ result.sent[i].cmd \in {"HeadObject", "DeleteObject"}
                    /\ result.sent[i].Key = prefix \o opts.sourceKey
              /\ result.failedAt \in {"HeadObject", "DeleteObject"}
              /\ result.sent[Len(result.sent)].cmd = result.failedAt
              /\ result.sent[Len(result.sent)].resp = "Error"
        /\ CopyFailed =>
              /\ Len(result.sent) = 1
              /\ result.err # NullErr /\ result.failedAt = "CopyObject"
              /\ objects = before

\* a move whose copy succeeded and whose DeleteObject request failed
C7_Witness ==
    /\ MoveReturned /\ CopySucceeded
    /\ result.failedAt = "DeleteObject" /\ result.err = "StoreError"
    /\ Len(result.sent) = 3

\* a move whose copy failed although the source exists
C7_WitnessCopyFailed ==
    /\ MoveReturned /\ CopyFailed
    /\ Addr(opts, opts.sourceKey) \in DOMAIN before

\* the content of the source is at the destination and the source is gone
Moved ==
    /\ Addr(opts, opts.sourceKey) \in DOMAIN before
    /\ Addr(opts, opts.key) \in DOMAIN objects
    /\ objects[Addr(opts, opts.key)].body = before[Addr(opts, opts.sourceKey)].body
    /\ objects[Addr(opts, opts.key)].size = before[Addr(opts, opts.sourceKey)].size
    /\ Addr(opts, opts.sourceKey) \notin DOMAIN objects

\* the call after a move that succeeded is a head of the moved source key
HeadAfterMove(dry) ==
    /\ last.op = "move" /\ last.err = NullErr /\ last.o.dry = dry
    /\ op = "head" /\ opts.key = last.o.sourceKey
    /\ result.state = "returned" /\ result.sent[1].resp # "Error"

C8_WitnessHead == HeadAfterMove(FALSE) /\ result.err = "NoSuchKey"

----------------------------------------------------------------------------
(* Claims about put and get *)

\* the caller has called get for the key of the put that just succeeded, a key
\* the cache takes
GetAfterPut ==
    /\ op = "get" /\ last.op = "put" /\ last.err = NullErr
    /\ opts.key = last.o.key /\ BucketOf(opts) = BucketOf(last.o)
    /\ cache.on /\ RegexMatch(opts.key, cache.keyMatch)

\* C9: with the cache enabled, a get that immediately follows a successful put of
\* a key matching cache.keyMatch sends no request to the backend and returns the
\* value that was put, with meta {cached: true}.
C9_CacheHitAfterPut ==
    GetAfterPut =>
        /\ SentSoFar = <<>>
        /\ result.state = "returned" =>
              /\ result.err = NullErr
              /\ result.data = last.o.value
              /\ result.meta = "cached"

\* a get served from the cache although the backend holds another record, or none
C9_Witness ==
    /\ GetAfterPut /\ result.state = "returned" /\ result.meta = "cached"
    /\ ~last.o.dry
    /\ Addr(opts, opts.key) \in DOMAIN before
    /\ before[Addr(opts, opts.key)].record = last.o.value

\* get has called back, and neither its request nor its stream failed
GetAnswered ==
    /\ op = "get" /\ result.state = "returned"
    /\ result.err \notin {"StoreError", "LocalFsError"}

\* the record that the last write to the key put there, if put wrote it
Written(o) ==
    IF Addr(o, o.key) \in DOMAIN objects THEN objects[Addr(o, o.key)].record ELSE NoValue

\* C10 as stated: a get of a key whose last write was a put of V returns a value
\* equal to V, with the cache disabled and with it enabled; after a second put of
\* V2 it returns V2.
C10_RoundTrip ==
    (GetAnswered /\ Written(opts) # NoValue) =>
        /\ result.err = NullErr
        /\ result.data = Written(opts)

\* the same with the cache disabled only
C10_RoundTripNoCache == ~cache.on => C10_RoundTrip

\* a get that returned the record of the second put to its key
C10_Witness ==
    /\ GetAnswered /\ Written(opts) # NoValue /\ result.data = Written(opts)
    /\ last.op = "put" /\ ~last.o.dry /\ last.o.key = opts.key
    /\ Addr(opts, opts.key) \in DOMAIN before
    /\ before[Addr(opts, opts.key)].mtime = Now

----------------------------------------------------------------------------
(* Claims about the multi-object methods *)

MultiOps == ListDriven \cup {"uploadFiles"}

\* the item operations that have started and not yet called back
InFlight == DOMAIN calls

\* the limit the caller asked for: threads, 1 when omitted or 0
Limit == IF opts.threads = 0 THEN 1 ELSE opts.threads

\* C2: during a multi-object method run with threads = N, the number of item
\* operations that have started and not yet called back is at most N in every
\* state, and at most 1 when threads is omitted or 0: an item starts only after
\* all but N - 1 of the items before it have called back.
C2_BoundedConcurrency ==
    op \in MultiOps =>
        /\ Cardinality(InFlight) <= Limit
        /\ opts.threads = 0 => Cardinality(InFlight) <= 1
        /\ job.running = Cardinality(InFlight)
        /\ job.next - job.completed = Cardinality(InFlight)
        /\ \A i \in InFlight : i <= job.next

\* as many items in flight as the limit allows, and more of them waiting
C2_Witness ==
    /\ op \in MultiOps /\ opts.threads = 2
    /\ Cardinality(InFlight) = 2
    /\ job.next < Len(job.files)

\* an item operation has reported an error
ItemFailed == op \in MultiOps /\ job.failed > 0

\* the caller's callback has received the first error, with null for files and
\* bytes, once only
FirstErrorReceived ==
    ItemFailed =>
        /\ result.state = "returned"
        /\ result.err = job.firstErr /\ result.err # NullErr
        /\ result.nulls /\ result.files = <<>>
        /\ result.count = 1

\* no item is started in a step taken after an item has failed
NoStartAfterError ==
    ItemFailed => /\ job'.next = job.next
                  /\ DOMAIN calls' \subseteq DOMAIN calls

\* C3: once an item operation of a multi-object method has reported an error, no
\* further queued item is ever started, and the method's callback has received that
\* first error, with null for files and bytes, and never a success after it.
C3_FirstErrorStop == []FirstErrorReceived /\ [][NoStartAfterError]_vars

\* an item failed while items were still waiting to be started
C3_Witness ==
    /\ ItemFailed
    /\ job.next < Len(job.files)
    /\ job.completed = job.next
    /\ result.state = "returned" /\ result.err = job.firstErr

\* the caller has received an error from an item of a job run with threads > 1
ErrorReceived ==
    /\ op \in MultiOps /\ job.limit > 1
    /\ result.state = "returned" /\ result.err # NullErr /\ job.failed > 0

\* C4 as stated: with threads > 1, at the time the caller receives the error of an
\* item no item operation of the call is still running.
C4_ErrorAfterDrain == ErrorReceived => InFlight = {}

\* C4 (amended): with threads > 1 the final callback is invoked with the error in
\* the handler in which the first failing item calls back, without waiting: the
\* item operations in flight then, at most threads - 1, are still running when the
\* caller receives the error, run to their end afterwards, and no item is started.
C4_ErrorWithoutDrain ==
    /\ [](/\ (op \in MultiOps /\ job.limit > 1 /\ job.failed > 0) => ErrorReceived
          /\ ErrorReceived =>
                /\ Cardinality(InFlight) <= job.limit - 1
                /\ job.completed + Cardinality(InFlight) = job.next)
    /\ [][ErrorReceived => /\ result' = result
                           /\ job'.next = job.next
                           /\ job'.completed >= job.completed]_vars

\* the caller has the error while another item operation is still running
C4_Witness == ErrorReceived /\ InFlight # {} /\ job.failed = 1

\* a multi-object method has returned without error
MultiSucceeded == op \in MultiOps /\ result.state = "returned" /\ result.err = NullErr

\* every item of the job has called back, none with an error
AllItemsDone ==
    /\ op \in MultiOps /\ job.limit > 0
    /\ job.completed = Len(job.files) /\ job.failed = 0

\* C5: the final callback of a multi-object method is invoked at most once; when
\* it reports success every listed item's operation has completed, and it returns
\* the file list and byte count of the listing step; when every item has completed
\* without error the callback has been invoked.
C5_CompletionOnSuccess ==
    /\ op \in MultiOps => result.count <= 1
    /\ MultiSucceeded =>
          /\ InFlight = {}
          /\ job.completed = Len(job.files) /\ job.failed = 0
          /\ result.files = listing.files /\ ~result.nulls
          /\ op \in ListDriven => result.bytes = listing.total_bytes
          /\ result.count = 1
    /\ AllItemsDone => MultiSucceeded

\* deleteFiles has deleted, two at a time, more objects than run at once
C5_Witness ==
    /\ op = "deleteFiles" /\ MultiSucceeded /\ ~opts.dry
    /\ job.limit = 2 /\ Len(result.files) >= 3
    /\ \A i \in 1..Len(result.files) : <<Bucket, result.files[i].key>> \notin DOMAIN objects

----------------------------------------------------------------------------
(* Claims about update *)

RECURSIVE Canon(_)
\* a record as deep equality sees it: its properties by name, in no order
Canon(v) ==
    IF v.t # "obj" THEN v
    ELSE [t |-> "obj",
          v |-> [k \in {v.v[i].k : i \in 1..Len(v.v)} |-> Canon(MemberOf(v, k))]]

\* a record as JSON carries it: without the properties whose value is undefined
Plain(v) == Canon(parse(stringify(v)).val)

RECURSIVE Merge(_, _, _)
\* the record with value at path: replaced or added, removed when value is the
\* delete sentinel, a missing intermediate created as an object
Merge(cv, path, value) ==
    LET k == Head(path)
        Set(x) == [t |-> "obj",
                   v |-> [n \in DOMAIN cv.v \cup {k} |-> IF n = k THEN x ELSE cv.v[n]]]
        Del == [t |-> "obj", v |-> [n \in DOMAIN cv.v \ {k} |-> cv.v[n]]]
    IN  IF Len(path) = 1 THEN IF value = NoValue THEN Del ELSE Set(Canon(value))
        ELSE IF k \notin DOMAIN cv.v
        THEN Set(Merge([t |-> "obj", v |-> [n \in {} |-> NoValue]], Tail(path), value))
        ELSE IF cv.v[k].t = "obj" THEN Set(Merge(cv.v[k], Tail(path), value))
        ELSE cv

RECURSIVE MergeAll(_, _)
MergeAll(cv, updates) ==
    IF updates = <<>> THEN cv
    ELSE MergeAll(Merge(cv, Head(updates).path, Head(updates).value), Tail(updates))

\* update has called back without error
UpdateReturned == op = "update" /\ result.state = "returned" /\ result.err = NullErr

\* the record the bucket holds for the key of the call
StoredRecord == parse(objects[Addr(opts, opts.key)].body).val

\* the call after an update that succeeded, not a dry run, is a get of the same key
GetAfterUpdate ==
    /\ last.op = "update" /\ last.err = NullErr /\ ~last.o.dry
    /\ op = "get" /\ opts.key = last.o.key
    /\ result.state = "returned" /\ result.err \notin {"StoreError", "LocalFsError"}

\* C11 as stated: update returns, and when it is not a dry run stores, the current
\* record with every update applied, a property whose update is the delete sentinel
\* being removed; a following get returns that same merged record.
C11_UpdateSemantics ==
    /\ UpdateReturned =>
          /\ Canon(result.data) = MergeAll(Plain(result.base), opts.updates)
          /\ ~opts.dry => Canon(StoredRecord) = Canon(result.data)
    /\ GetAfterUpdate =>
          /\ result.err = NullErr
          /\ Canon(result.data) = MergeAll(Plain(last.data), <<>>)

\* what holds of update: the record stored is the current record with every update
\* applied, and the record returned is that record up to properties whose value
\* is undefined
C11_StoredRecord ==
    /\ UpdateReturned =>
          /\ Plain(result.data) = MergeAll(Plain(result.base), opts.updates)
          /\ ~opts.dry => Canon(StoredRecord) = Plain(result.data)
    /\ GetAfterUpdate =>
          /\ result.err = NullErr
          /\ Plain(result.data) = Plain(last.data)

\* an update that deleted one property and added another
C11_Witness ==
    /\ UpdateReturned /\ ~opts.dry
    /\ Len(opts.updates) = 2
    /\ Plain(result.base) = Canon(JObj(<<JMember("a", JNum(1)), JMember("b", JNum(2))>>))
    /\ Canon(StoredRecord) = Canon(JObj(<<JMember("a", JNum(1)), JMember("c", JNum(3))>>))

\* update has called back after another client's put took effect between its get
\* and its put, none of its own requests having failed
UpdateRaced ==
    /\ op = "update" /\ result.state = "returned" /\ result.raced
    /\ \A i \in 1..Len(result.sent) : result.sent[i].resp # "Error"
    /\ result.err \notin {"LocalFsError", "ParseError"}

\* C12: when another writer's put takes effect after update's get has read the
\* record and before update's put is written, update succeeds without error and
\* without a second read or write, and the record stored in the end is update's
\* merge of the record read before that put: what the other writer wrote is lost.
C12_LastWriteWins ==
    UpdateRaced =>
        /\ result.err = NullErr
        /\ Requests("GetObject", result.sent) \in {{}, {1}}
        /\ Cardinality(Requests("Upload", result.sent)) <= 1
        /\ Plain(result.data) = MergeAll(Plain(result.base), opts.updates)
        /\ ~opts.dry =>
              /\ Canon(StoredRecord) = Plain(result.data)
              /\ objects[Addr(opts, opts.key)].record # OtherRecord

\* the other client's record, which the update did not read, is gone
C12_Witness ==
    /\ UpdateRaced /\ ~opts.dry /\ result.err = NullErr
    /\ Len(result.sent) = 2
    /\ Plain(result.base) # Canon(OtherRecord)
    /\ "c" \notin DOMAIN Canon(StoredRecord).v

----------------------------------------------------------------------------
(* Claims about get of an object that is not JSON *)

\* get has called back after the backend delivered an object that is not JSON
GotNotJSON ==
    /\ op = "get" /\ result.state = "returned"
    /\ result.err \notin {"StoreError", "LocalFsError", "NoSuchKey"}
    /\ result.sent # <<>> /\ result.read = NotJSON

\* a get of the key whose previous get failed to parse
GetAfterParseError ==
    /\ op = "get" /\ last.op = "get" /\ last.err = "ParseError"
    /\ opts.key = last.o.key /\ BucketOf(opts) = BucketOf(last.o)

\* C13: when get misses the cache and the fetched object is not valid JSON, get
\* calls back with an error and no data, the error is logged under the code json,
\* the cache holds no entry for the key afterwards, and the next get of the key
\* sends a request to the backend again.
C13_ParseFailure ==
    /\ GotNotJSON =>
          /\ result.err = "ParseError" /\ result.nulls
          /\ result.data = NoValue /\ result.meta = "null"
          /\ result.logged = <<"json">>
          /\ ~lruHas(lru, opts.key)
    /\ GetAfterParseError =>
          /\ 0 \in DOMAIN calls => calls[0].steps[1] = "GetObject"
          /\ result.state = "returned" =>
                Requests("GetObject", result.sent) # {} /\ result.meta # "cached"

\* with the cache enabled for the key, a second get of the object that is not
\* JSON has asked the backend again and failed again
C13_Witness ==
    /\ GetAfterParseError /\ GotNotJSON /\ Cacheable(opts.key)
    /\ result.err = "ParseError" /\ Len(result.sent) = 1

----------------------------------------------------------------------------
(* Claims about head *)

\* head has called back and its request was answered
HeadAnswered ==
    /\ op = "head" /\ result.state = "returned"
    /\ \A i \in 1..Len(result.sent) : result.sent[i].resp # "Error"

\* C14: head of a key that does not exist calls back with an error whose code is
\* NoSuchKey and null metadata, unless nonfatal is set, in which case it calls
\* back with no error and null metadata; head never consults the cache and always
\* sends a request to the backend.
C14_HeadMissing ==
    /\ (op = "head" /\ 0 \in DOMAIN calls) => calls[0].steps = <<"HeadObject">>
    /\ (op = "head" /\ result.state = "returned") =>
          /\ Len(result.sent) = 1 /\ result.sent[1].cmd = "HeadObject"
          /\ result.sent[1].Key = prefix \o opts.key
          /\ result.meta # "cached"
    /\ (HeadAnswered /\ Addr(opts, opts.key) \notin DOMAIN objects) =>
          /\ result.meta = "null"
          /\ result.err = IF opts.nonfatal THEN NullErr ELSE "NoSuchKey"
          /\ result.logged = <<>>

\* head of a key that the cache holds and the bucket does not, with nonfatal set
C14_Witness ==
    /\ HeadAnswered /\ Addr(opts, opts.key) \notin DOMAIN objects
    /\ opts.nonfatal /\ result.err = NullErr
    /\ Cacheable(opts.key) /\ lruHas(lru, opts.key)

\* the same without nonfatal
C14_WitnessFatal ==
    /\ HeadAnswered /\ Addr(opts, opts.key) \notin DOMAIN objects
    /\ ~opts.nonfatal /\ result.err = "NoSuchKey"

----------------------------------------------------------------------------
(* Claims about the filter and older arguments *)

\* list, or a method that lists through it, was called with both a filter function
\* and an older value
BothGiven ==
    /\ op \in {"list"} \cup ListDriven
    /\ listing.given.filter # "unset" /\ listing.given.older # 0

\* C15: list, and every method that lists through it, called with both a filter
\* function and an older value calls back with an error, once, and sends no
\* request to the backend.
C15_FilterOlderExclusive ==
    BothGiven =>
        /\ result.state = "returned" /\ result.count = 1
        /\ result.err = "Exclusive" /\ result.nulls
        /\ listing.num_calls = 0 /\ listing.pc = "idle"
        /\ calls = NoCalls /\ job = NoJob /\ result.sent = <<>>
        /\ objects = before

\* deleteFiles refused with both arguments while the bucket holds objects
C15_Witness ==
    /\ BothGiven /\ op = "deleteFiles" /\ result.err = "Exclusive"
    /\ objects # <<>>

----------------------------------------------------------------------------
(* Claims about copy followed by get *)

\* the object a copy was made from
SourceOf(o) == <<SourceBucketOf(o), prefix \o o.sourceKey>>

\* get of the key that the previous call, a copy, copied a record to, has called
\* back, and neither its request nor its stream failed
GetAfterCopy ==
    /\ GetAnswered /\ last.op = "copy" /\ last.err = NullErr /\ ~last.o.dry
    /\ opts.key = last.o.key /\ BucketOf(opts) = BucketOf(last.o)
    /\ SourceOf(last.o) \in DOMAIN objects
    /\ parse(objects[SourceOf(last.o)].body).ok

\* C16 as stated: after copy(sourceKey -> key) completes without error, get(key)
\* returns the JSON data of the source object, whatever the client did before,
\* including get and put of key with the cache enabled.
C16_CopyThenRead ==
    GetAfterCopy =>
        /\ result.err = NullErr
        /\ result.data = parse(objects[SourceOf(last.o)].body).val

\* the same with the cache disabled only
C16_CopyThenReadNoCache == ~cache.on => C16_CopyThenRead

\* a get after a copy answered from the cache
C16_Witness == GetAfterCopy /\ result.meta = "cached"

----------------------------------------------------------------------------
(* Claims about put and the cache *)

\* a put that is not a dry run is in progress or has called back
RealPut == op = "put" /\ ~opts.dry

\* C17: every put(key, V) that is not a dry run sends a write to the backend
\* whatever the cache holds for key; the cache entry of key is set to V only once
\* that write has succeeded, in the step in which put calls back without error,
\* and when the write fails the cache is exactly what it was before the put.
C17_ReadCacheOnly ==
    /\ [](RealPut =>
            /\ 0 \in DOMAIN calls => calls[0].steps = <<"Upload">>
            /\ result.state = "returned" =>
                  /\ Len(result.sent) = 1 /\ result.sent[1].cmd = "Upload"
                  /\ result.sent[1].Key = prefix \o opts.key)
    /\ [][(op' = "put" /\ ~opts'.dry /\ lru' # lru) =>
            /\ 0 \in DOMAIN calls /\ calls[0].resp = "ok"
            /\ result'.state = "returned" /\ result'.err = NullErr
            /\ Addr(opts, opts.key) \in DOMAIN objects
            /\ objects[Addr(opts, opts.key)].record = opts.value
            /\ lru' = lruSet(lru, opts.key, opts.value)]_vars
    /\ [][(RealPut /\ result'.state = "returned" /\ result'.err # NullErr) =>
            lru' = lru]_vars

\* a put whose write failed while the cache held another record for the key,
\* which is still there
C17_Witness ==
    /\ RealPut /\ result.state = "returned" /\ result.err = "StoreError"
    /\ lruHas(lru, opts.key) /\ lruPeek(lru, opts.key) # opts.value

----------------------------------------------------------------------------
(* Claims about cache.keyMatch *)

\* get, put or delete was called, with the cache enabled, for a key that does not
\* match cache.keyMatch
UnmatchedCall ==
    /\ op \in {"get", "put", "delete"}
    /\ cache.on /\ ~RegexMatch(opts.key, cache.keyMatch)

\* C18: every key the cache holds matches cache.keyMatch; get, put and delete of a
\* key that does not match never read, insert or remove a cache entry, and get of
\* such a key always sends its request to the backend.
C18_KeyMatch ==
    /\ [](/\ \A i \in 1..Len(lru) : cache.on /\ RegexMatch(lru[i].key, cache.keyMatch)
          /\ UnmatchedCall =>
                /\ ~lruHas(lru, opts.key)
                /\ 0 \in DOMAIN calls => "Hit" \notin {calls[0].steps[i] : i \in 1..Len(calls[0].steps)}
                /\ result.meta # "cached"
                /\ (op = "get" /\ result.state = "returned") =>
                      /\ result.sent # <<>> /\ result.sent[1].cmd = "GetObject"
                      /\ result.sent[1].Key = prefix \o opts.key)
    /\ [][UnmatchedCall' => lru' = lru]_vars

\* a record put and then fetched under a key that does not match, beside a cached
\* one: the fetch asked the backend and the cache holds only the matching key
C18_Witness ==
    /\ UnmatchedCall /\ op = "get" /\ result.state = "returned"
    /\ result.err = NullErr /\ last.op = "put" /\ last.o.key = opts.key
    /\ last.err = NullErr /\ lru # <<>>

----------------------------------------------------------------------------
(* Claims about delete and the cache *)

\* delete, not a dry run, has called back without error, and the caller has made
\* no call since
Deleted ==
    /\ op = "delete" /\ ~opts.dry
    /\ result.state = "returned" /\ result.err = NullErr

\* the first call after such a delete is a get of the key
GetAfterDelete ==
    /\ op = "get" /\ last.op = "delete" /\ ~last.o.dry /\ last.err = NullErr
    /\ opts.key = last.o.key /\ BucketOf(opts) = BucketOf(last.o)

\* C19 as stated: once a delete(key) that is not a dry run has completed
\* successfully and no put(key) or get(key) was issued after it, the cache holds no
\* entry for key and the next get(key) goes to the backend, and fails with
\* NoSuchKey; whatever get(key) and put(key) calls were in flight when delete was
\* called, and however they interleave with it.
C19_DeleteEvicts ==
    /\ Deleted => ~lruHas(lru, opts.key)
    /\ GetAfterDelete =>
          /\ 0 \in DOMAIN calls => calls[0].steps[1] = "GetObject"
          /\ result.state = "returned" =>
                /\ result.meta # "cached"
                /\ result.sent # <<>>
                /\ result.sent[1].resp # "Error" => result.err = "NoSuchKey"

\* delete has completed, a get that was in flight has since called back, the
\* bucket no longer holds the key and the cache does
C19_Witness ==
    /\ Deleted /\ calls = NoCalls
    /\ Addr(opts, opts.key) \notin DOMAIN objects
    /\ lruHas(lru, opts.key)

----------------------------------------------------------------------------
(* Claims about dry runs *)

Writes == {"Upload", "CopyObject", "DeleteObject"}

\* a method was called with dry set
DryCall == op # "none" /\ opts.dry

\* no request that changes the bucket has been sent, and the bucket is as it was
NoActionOnStore ==
    /\ \A id \in DOMAIN calls : \A w \in Writes : Requests(w, calls[id].sent) = {}
    /\ \A w \in Writes : Requests(w, result.sent) = {}
    /\ objects = before

C20_WitnessUpdate ==
    /\ DryCall /\ op = "update" /\ result.state = "returned"
    /\ result.err = "NoSuchKey"

----------------------------------------------------------------------------
(* Claims about filespec *)

\* list or walk has called back without error
Listing == op \in {"list", "walk"} /\ result.state = "returned" /\ result.err = NullErr

\* the descriptors list returned, or walk passed to its iterator
Found == IF op = "walk" THEN listing.files ELSE result.files

\* the stored objects that the folder-marker rule of list and the filter let through
Eligible ==
    LET Pass(f) == /\ op = "list" => (opts.emptyFolders \/ ~IsFolderMarker(f))
                   /\ CallFilter(opts, f)
    IN  SelectSeq(StoredUnder(prefix \o opts.remotePath), Pass)

\* the part of the key after its last '/'
AfterLastSlash(k) ==
    LET idx == {i \in 1..Len(k) : k[i] = "/"}
    IN  IF idx = {} THEN k
        ELSE SubSeq(k, (CHOOSE i \in idx : \A j \in idx : j <= i) + 1, Len(k))

\* the last segment of the key that is not empty: the part after the last '/' of
\* the key without the '/' it ends with
RECURSIVE LastSegment(_)
LastSegment(k) ==
    IF Len(k) > 1 /\ k[Len(k)] = "/" THEN LastSegment(SubSeq(k, 1, Len(k) - 1))
    ELSE AfterLastSlash(k)

InSeq(x, q) == \E i \in 1..Len(q) : q[i] = x

\* C21 as stated: an object is included by list and by walk under a filespec iff
\* the part of its key after the last '/' matches filespec.
C21_FilespecAfterLastSlash ==
    Listing =>
        \A i \in 1..Len(Eligible) :
            InSeq(Eligible[i], Found)
                <=> RegexMatch(AfterLastSlash(Eligible[i].key), opts.filespec)

\* C21 (amended): an object is included by list and by walk under a filespec iff
\* the basename of its key matches filespec, the basename being the last segment
\* of the key that is not empty: the part after the last '/', the '/' that the key
\* may end with set aside; a key whose directory part matches filespec and whose
\* basename does not is excluded.
C21_FilespecBasename ==
    Listing =>
        /\ \A i \in 1..Len(Eligible) :
              InSeq(Eligible[i], Found)
                  <=> RegexMatch(LastSegment(Eligible[i].key), opts.filespec)
        /\ \A i \in 1..Len(Found) : InSeq(Found[i], Eligible)

\* under filespec /a/ the listing holds d/a and not a/b, which is stored too
C21_Witness ==
    /\ Listing /\ opts.filespec = "a" /\ opts.remotePath = <<>>
    /\ \E i \in 1..Len(Found) : Found[i].key = prefix \o <<"d", "/", "a">>
    /\ \E i \in 1..Len(Eligible) : Eligible[i].key = prefix \o <<"a", "/", "b">>
    /\ ~\E i \in 1..Len(Found) : Found[i].key = prefix \o <<"a", "/", "b">>

----------------------------------------------------------------------------
(* Claims about folder markers *)

\* the folder markers stored under the listed path when the method was called:
\* objects of size 0 with a key that ends in '/'
MarkersBefore ==
    LET as == {a \in DOMAIN before :
                 /\ a[1] = Bucket /\ StartsWith(a[2], prefix \o opts.remotePath)
                 /\ before[a].size = 0 /\ a[2][Len(a[2])] = "/"}
    IN  {[key |-> a[2], size |-> 0, mtime |-> before[a].mtime] : a \in as}

\* filespec and filter let the marker through
Selected(f) == CallFilter(opts, f) /\ RegexMatch(basename(f.key), opts.filespec)

\* eachLimit has been given the files of the listing
JobStarted == job # NoJob

\* C22: list omits every object of size 0 with a key ending in '/' from files and
\* from the byte total unless emptyFolders is set, and then such objects are
\* subject to filespec and filter only; copyFiles and moveFiles always work on the
\* listing with the folder markers in it; deleteFiles and downloadFiles, without
\* emptyFolders, never send a request for a folder marker and leave it where it is.
C22_FolderMarkers ==
    /\ (op = "list" /\ result.state = "returned" /\ result.err = NullErr) =>
          /\ \A f \in MarkersBefore :
                InSeq(f, result.files) <=> (opts.emptyFolders /\ Selected(f))
          /\ result.bytes = SumSizes(result.files)
    /\ (op \in {"copyFiles", "moveFiles"} /\ JobStarted) =>
          \A f \in MarkersBefore : InSeq(f, job.files) <=> Selected(f)
    /\ (op \in {"deleteFiles", "downloadFiles"} /\ ~opts.emptyFolders) =>
          /\ \A f \in MarkersBefore :
                /\ ~InSeq(f, job.files)
                /\ <<Bucket, f.key>> \in DOMAIN objects
                /\ \A id \in DOMAIN calls :
                      \A i \in 1..Len(calls[id].sent) : calls[id].sent[i].Key # f.key

\* deleteFiles has deleted the objects under the path and left the folder marker
C22_Witness ==
    /\ op = "deleteFiles" /\ ~opts.emptyFolders /\ opts.remotePath = <<>>
    /\ result.state = "returned" /\ result.err = NullErr
    /\ MarkersBefore # {} /\ job.completed >= 2
    /\ \A a \in DOMAIN objects : <<a[1], a[2], 0>> \in
          {<<Bucket, f.key, f.size>> : f \in MarkersBefore}

\* copyFiles working on a folder marker
C22_WitnessCopy ==
    /\ op = "copyFiles" /\ JobStarted
    /\ \E f \in MarkersBefore : InSeq(f, job.files)

----------------------------------------------------------------------------
(* Claims about what is logged *)

\* the answer to the last request of the call that has called back
LastAnswer ==
    IF result.sent = <<>> THEN "none" ELSE result.sent[Len(result.sent)].resp

\* head, get, copy or delete has called back after the backend reported that the
\* key does not exist
KeyNotFound ==
    /\ op \in {"head", "get", "copy", "delete"}
    /\ result.state = "returned" /\ LastAnswer = "NotFound"

\* C23: for head, get, copy and delete, when the backend reports that the key does
\* not exist, logError is not called at all; the caller gets an error with code
\* NoSuchKey, or no error from head under nonfatal.
C23_NotFoundNotLogged ==
    KeyNotFound =>
        /\ result.logged = <<>>
        /\ result.err = IF op = "head" /\ opts.nonfatal THEN NullErr ELSE "NoSuchKey"

\* delete of a key that does not exist: NoSuchKey from its head request, no log
C23_Witness ==
    /\ KeyNotFound /\ op = "delete" /\ result.err = "NoSuchKey"
    /\ result.logged = <<>> /\ result.sent[1].cmd = "HeadObject"

\* a request of head, get, put, copy or delete failed, and not because the key
\* does not exist
RequestFailed ==
    /\ op \in {"head", "get", "put", "copy", "delete"}
    /\ result.state = "returned" /\ LastAnswer = "Error"

\* a page request of list or walk failed
PageFailed ==
    /\ op \in {"list", "walk"} /\ result.state = "returned"
    /\ Len(listing.asked) > listing.num_calls

\* for head, get, put, copy and delete, a failure of the backend other than
\* not-found is logged and is the error that the caller gets
C24_SingleObjectFailuresLogged ==
    RequestFailed => (result.err = "StoreError" /\ result.logged # <<>>)

\* C24 as stated: for every operation that talks to the backend, a failure of the
\* backend other than not-found is both logged through logError, at least once,
\* and returned to the caller as the error of the operation.
C24_FailuresLogged ==
    /\ C24_SingleObjectFailuresLogged
    /\ PageFailed => (result.err = "StoreError" /\ result.logged # <<>>)

\* a failed page request reaches the caller as the error of list
C24_PageFailurePropagated == PageFailed => result.err = "StoreError"

----------------------------------------------------------------------------
(* Claims about cache.maxAge *)

\* C25: with cache.maxAge configured, a get(key) issued when at least maxAge has
\* elapsed since the entry of key was stored, by put or by get, is not served from
\* the cache: it sends a request to the backend and returns the metadata of the
\* backend, not {cached: true}.
C25_TTLExpiry ==
    /\ [][(op = "none" /\ op' = "get" /\ cache.maxAge > 0
             /\ lruHas(lru, opts'.key) /\ lruAge(lru, opts'.key) >= cache.maxAge) =>
            /\ calls'[0].steps = <<"GetObject", "Read">>
            /\ Requests("GetObject", calls'[0].sent) = {1}
            /\ ~lruHas(lru', opts'.key)]_vars
    /\ []((op = "get" /\ result.state = "returned" /\ result.sent # <<>>) =>
            /\ result.meta # "cached"
            /\ result.err = NullErr => result.meta = "s3")

\* a get that follows a successful put of its key at once, and that the backend
\* answered: the entry had expired in between
C25_Witness ==
    /\ GetAfterPut /\ ~last.o.dry /\ result.state = "returned"
    /\ result.sent # <<>> /\ result.err = NullErr /\ result.meta = "s3"

(***************************************************************************)
(* Claims about cache.maxItems                                             *)
(***************************************************************************)
\* an entry of a key that had none is stored while the cache holds maxItems entries
Overflow ==
    /\ cache.maxItems > 0 /\ Len(lru) = cache.maxItems
    /\ \E i \in 1..Len(lru') : ~lruHas(lru, lru'[i].key)

\* the keys whose entries the step removes
Removed == {lru[i].key : i \in 1..Len(lru)} \ {lru'[i].key : i \in 1..Len(lru')}

\* the key inserted earliest, and the key set or returned least recently
Earliest == {lru[i].key : i \in {j \in 1..Len(lru) : lru[j].born = Len(lru) - 1}}
LeastRecent == {lru[i].key : i \in {j \in 1..Len(lru) : lru[j].used = Len(lru) - 1}}

C26_Witness ==
    /\ op = "put" /\ result.state = "returned" /\ result.err = NullErr
    /\ Addr(opts, opts.key) \notin DOMAIN before
    /\ last.op = "get" /\ last.err = NullErr /\ last.o.key # opts.key
    /\ Len(lru) = cache.maxItems
    /\ lruHas(lru, opts.key) /\ lruHas(lru, last.o.key)
    /\ \E k \in CapKeys : Addr(opts, k) \in DOMAIN objects /\ ~lruHas(lru, k)

RECURSIVE CompletedSize(_)
CompletedSize(n) ==
    IF n = 0 THEN 0
    ELSE job.files[job.progress[n].item].size + CompletedSize(n - 1)

\* the multi-object method has called back without an error
AllSucceeded ==
    /\ op \in ListDriven \cup {"uploadFiles"}
    /\ result.state = "returned" /\ result.err = NullErr

\* C27: in every progress callback of one multi-object operation, total is the same
\* value, the sum of the sizes of all the items of the job list; loaded never
\* decreases from one callback to the next, never exceeds total, is the sum of the
\* sizes of the items completed so far, and is total in the last callback of a run
\* in which every item succeeded.
C27_ProgressAggregation ==
    /\ \A n \in 1..Len(job.progress) :
          /\ job.progress[n].total = TotalSize(job.files)
          /\ job.progress[n].loaded <= job.progress[n].total
          /\ job.progress[n].loaded = CompletedSize(n)
          /\ n > 1 => job.progress[n].loaded >= job.progress[n - 1].loaded
          /\ \A m \in 1..Len(job.progress) :
                job.progress[m].item = job.progress[n].item => m = n
    /\ (AllSucceeded /\ job.files # <<>>) =>
          /\ Len(job.progress) = Len(job.files)
          /\ job.progress[Len(job.progress)].loaded = TotalSize(job.files)

\* every item of a job of three or more has succeeded, two at a time, and a later
\* item reported its progress before an earlier one
C27_Witness ==
    /\ AllSucceeded /\ Len(job.files) >= 3 /\ job.limit = 2
    /\ Len(job.progress) = Len(job.files)
    /\ \E n \in 2..Len(job.progress) : job.progress[n].item < job.progress[n - 1].item
    /\ job.progress[1].loaded > 0
    /\ job.progress[Len(job.progress)].loaded = job.total

\* the same for uploadFiles, whose total is summed from the files found
C27_WitnessUpload ==
    /\ op = "uploadFiles" /\ AllSucceeded /\ Len(job.files) >= 2
    /\ Len(job.progress) = Len(job.files)
    /\ job.progress[Len(job.progress)].loaded = job.total /\ job.total > 0
(***************************************************************************)
(* Claims about the key prefix                                             *)
(***************************************************************************)
\* the call of one item of the job has a request to the backend under way
ItemRequests ==
    {id \in DOMAIN calls : /\ op \in ListDriven /\ calls[id].cont > 0
                           /\ calls[id].step >= 1
                           /\ calls[id].steps[calls[id].step] \in S3Commands}

\* the key at which the request under way addresses the object the item was
\* listed as: CopySource of a copy, Key of a head, a get or a delete
SourceAddressed(c) ==
    IF c.steps[c.step] = "CopyObject" THEN c.params.SrcKey ELSE c.params.Key

\* C28: for each object listed by copyFiles, moveFiles, deleteFiles or downloadFiles
\* the source key sent to the backend for that item is the key of the listed
\* object, the caller's key with the prefix prepended once.
C28_PrefixOnce ==
    \A id \in ItemRequests :
        SourceAddressed(calls[id]) = job.files[calls[id].cont].key

\* C28 for deleteFiles and downloadFiles alone, which slice the prefix off the
\* listed key before they call delete and downloadFile
C28_PrefixOnceSliced ==
    \A id \in ItemRequests :
        op \in {"deleteFiles", "downloadFiles"} =>
            SourceAddressed(calls[id]) = job.files[calls[id].cont].key

\* C28 for a bucket used without a prefix, one item at a time
C28_NoPrefix ==
    \A id \in ItemRequests :
        (prefix = <<>> /\ job.limit = 1) =>
            SourceAddressed(calls[id]) = job.files[calls[id].cont].key

\* a copy of copyFiles addresses its source with the prefix prepended twice
C28_DoublePrefix ==
    \E id \in ItemRequests :
        /\ op = "copyFiles" /\ prefix # <<>>
        /\ calls[id].params.SrcKey = prefix \o job.files[calls[id].cont].key
(***************************************************************************)
(* Claims about walk and list                                              *)
(***************************************************************************)
\* walk has called back, right after list did, for the same options and the same
\* objects, and no page request of either was failed by the backend
WalkAfterList ==
    /\ op = "walk" /\ result.state = "returned" /\ result.count = 1
    /\ last.op = "list"
    /\ result.err # "StoreError" /\ last.err # "StoreError"

SameOutcome ==
    /\ (result.err = NullErr) <=> (last.err = NullErr)
    /\ result.err = NullErr => listing.files = last.files
    /\ listing.asked = last.asked

\* C29: for every backend state and every options value, walk and list have the
\* same outcome: both fail, or the descriptors passed to the iterator of walk are
\* the files of list in the same order; and both send the same page requests.
C29_WalkAgreesWithList == WalkAfterList => SameOutcome

\* C29 for the options under which list keeps folder markers and takes both of
\* filter and older or neither: there walk and list agree
C29_WalkAgreesWithMarkers ==
    (WalkAfterList /\ opts.emptyFolders /\ ~Exclusive(listing.given)) => SameOutcome

\* walk hands its iterator a folder marker that list left out
C29_WalkPassesMarker ==
    /\ WalkAfterList /\ ~opts.emptyFolders /\ last.err = NullErr /\ result.err = NullErr
    /\ \E i \in 1..Len(listing.files) :
          /\ EndsWithSlash(listing.files[i].key) /\ listing.files[i].size = 0
          /\ ~InSeq(listing.files[i], last.files)

\* walk succeeds with the filter and older that list refused
C29_WalkTakesBoth ==
    /\ WalkAfterList /\ last.err = "Exclusive" /\ result.err = NullErr
    /\ listing.asked # <<>>
(***************************************************************************)
(* Claims about the pages of list and walk                                 *)
(***************************************************************************)
\* the page the backend returns to the i-th request of the loop
PageOf(i) == ListObjectsV2(Bucket, prefix \o opts.remotePath, listing.asked[i])

\* the i-th request was answered with a page
Answered(i) == i <= listing.num_calls

LastKey(data) == data.Contents[Len(data.Contents)].Key

MorePages(data) == data.IsTruncated /\ data.Contents # <<>>

\* the requests sent so far follow the loop: no StartAfter first, then the key of the
\* last raw entry of the page before, which was truncated and not empty; and the
\* loop that has ended without a failure ended on a page that was not
PagesInOrder ==
    op \in {"list", "walk"} =>
        /\ \A i \in 1..Len(listing.asked) :
              IF i = 1 THEN listing.asked[i] = <<>>
              ELSE /\ Answered(i - 1) /\ MorePages(PageOf(i - 1))
                   /\ listing.asked[i] = LastKey(PageOf(i - 1))
        /\ (listing.pc = "wait" /\ listing.asked # <<>>) =>
              /\ MorePages(PageOf(Len(listing.asked)))
              /\ listing.StartAfter = LastKey(PageOf(Len(listing.asked)))
        /\ (listing.pc \in {"tick", "idle"} /\ listing.asked # <<>>
                /\ Answered(Len(listing.asked))) =>
              ~MorePages(PageOf(Len(listing.asked)))

\* the callback is invoked once at most, and a failed page request of list gives it
\* the error with null files and bytes
CalledBackOnce ==
    /\ result.count <= 1
    /\ result.state = "returned" => result.count = 1
    /\ (PageFailed /\ op = "list") =>
          /\ result.err = "StoreError" /\ result.nulls
          /\ result.files = <<>> /\ result.bytes = 0

\* C30: list and walk send the first request with no StartAfter and a further
\* request iff the page before was truncated and not empty, with StartAfter the key
\* of the last raw entry of that page, kept or not; the backend returning only keys
\* after StartAfter, the callback is eventually invoked, exactly once; a failed page
\* request ends the loop and yields the error with null files and bytes.
C30_PaginationTerminates ==
    /\ [](PagesInOrder /\ CalledBackOnce)
    /\ (op \in {"list", "walk"}) ~> (result.state = "returned" /\ result.count = 1)

\* list has called back after two pages or more, the first of which ended on an
\* entry that list did not keep
C30_Witness ==
    /\ op = "list" /\ result.state = "returned" /\ result.err = NullErr
    /\ listing.num_calls >= 2
    /\ \A i \in 1..Len(result.files) : result.files[i].key # listing.asked[2]

\* a page request after the first has failed
C30_WitnessFailure ==
    /\ op = "list" /\ PageFailed /\ Len(listing.asked) >= 2
(***************************************************************************)
(* Claims about the bytes of list                                          *)
(***************************************************************************)
\* list has called back without an error
ListSucceeded == op = "list" /\ result.state = "returned" /\ result.err = NullErr

\* the size of the objects of the bucket that the files of the result describe
StoredSize(files) ==
    LET At(i) == <<Bucket, files[i].key>>
        sizes == [i \in 1..Len(files) |->
                     [size |-> IF At(i) \in DOMAIN objects THEN objects[At(i)].size
                               ELSE 0]]
    IN  TotalSize(sizes)

\* C31: the bytes that list returns is the sum of the size fields of the descriptors
\* of the files it returns, whatever filespec, filter, older and emptyFolders are and
\* however many pages were read; the sizes are those of the objects stored.
C31_ByteTotal ==
    ListSucceeded =>
        /\ result.bytes = TotalSize(result.files)
        /\ result.bytes = StoredSize(result.files)

\* list has read two pages or more and left out an object that has bytes
C31_Witness ==
    /\ ListSucceeded /\ listing.num_calls >= 2 /\ result.bytes > 0
    /\ \E a \in DOMAIN objects :
          /\ objects[a].size > 0
          /\ StartsWith(a[2], prefix \o opts.remotePath)
          /\ \A i \in 1..Len(result.files) : result.files[i].key # a[2]
(***************************************************************************)
(* Claims about the order of filespec and filter                           *)
(***************************************************************************)
\* the keys of the objects under remotePath that the loop does not skip before it
\* comes to the filter
Unskipped ==
    LET under == StoredUnder(prefix \o opts.remotePath)
    IN  {under[i].key : i \in {j \in 1..Len(under) :
            op = "walk" \/ opts.emptyFolders \/ ~IsFolderMarker(under[j])}}

\* C32 as stated: filespec is applied first and the filter of the caller second, so
\* the filter is never invoked for an entry that filespec rejects.
C32_FilespecFirst ==
    (op \in {"list", "walk"} /\ listing.given.filter # "unset") =>
        \A k \in listing.filtered : RegexMatch(basename(k), opts.filespec)

\* C32 (amended): the filter is applied first and filespec second: the filter is
\* invoked for every entry that the loop reads and does not skip as a folder marker,
\* whether filespec matches it or not, and only for these.
C32_FilterFirst ==
    /\ op \in {"list", "walk"} => listing.filtered \subseteq Unskipped
    /\ Listing => listing.filtered = Unskipped

\* the filter of the caller was invoked for an entry that filespec rejects
C32_Witness ==
    /\ Listing /\ listing.given.filter # "unset" /\ opts.filespec = "a"
    /\ \E k \in listing.filtered : ~RegexMatch(basename(k), opts.filespec)
(***************************************************************************)
(* Claims about list called twice                                          *)
(***************************************************************************)
\* list has called back, for the options object that the call of list before it
\* was given and accepted, and the backend failed no page request of this call
ListedAgain ==
    /\ op = "list" /\ result.state = "returned" /\ result.err # "StoreError"
    /\ last.op = "list" /\ last.err = NullErr

SameListing ==
    /\ result.err = NullErr
    /\ result.files = last.files
    /\ result.bytes = TotalSize(last.files)

\* C33: list called a second time with the very same options object, for any
\* options the first call accepted, one that sets only older among them, is
\* accepted again and returns the same files and bytes, the backend unchanged.
C33_RepeatableListing == ListedAgain => (objects = before /\ SameListing)

\* C33 for an options object that does not set older
C33_RepeatableWithoutOlder == (ListedAgain /\ opts.older = 0) => SameListing

\* the second call is refused for the filter that the first call stored in the
\* options object beside older
C33_SecondCallRefused ==
    /\ ListedAgain /\ opts.older # 0 /\ opts.filter = "older"
    /\ result.err = "Exclusive" /\ last.files # <<>>
(***************************************************************************)
(* Claims about the codes of logged errors                                 *)
(***************************************************************************)
\* the category of the operation that failed: that of the request that was
\* refused, json for a record that does not parse
CategoryOf(kind, err) ==
    CASE err = "ParseError" -> "json"
      [] kind = "HeadObject" -> "head"
      [] kind = "CopyObject" -> "copy"
      [] kind = "DeleteObject" -> "delete"
      [] kind \in {"GetObject", "Read"} -> "get"
      [] OTHER -> "put"

SomethingLogged == result.state = "returned" /\ result.logged # <<>>

\* C34: every error passed to the logger carries the code of the category of the
\* operation that failed; a failure of copy other than not-found is logged under a
\* code of copy, never under that of head.
C34_ErrorCodes ==
    SomethingLogged =>
        result.logged = <<CategoryOf(result.failedAt, result.err)>>

\* C34 for every request but CopyObject
C34_ErrorCodesButCopy ==
    (SomethingLogged /\ result.failedAt # "CopyObject") =>
        result.logged = <<CategoryOf(result.failedAt, result.err)>>

\* the backend has failed the request of copy, which is logged under head
C34_CopyLoggedAsHead ==
    /\ op = "copy" /\ SomethingLogged /\ result.failedAt = "CopyObject"
    /\ result.err = "StoreError" /\ result.logged = <<"head">>
(***************************************************************************)
(* Claims about moveFiles                                                  *)
(***************************************************************************)
\* the items of moveFiles that have come to the delete of their move and have a
\* request under way
ItemDeletes ==
    {id \in DOMAIN calls : /\ op = "moveFiles" /\ calls[id].cont > 0
                           /\ calls[id].op = "move"
                           /\ calls[id].step >= 1
                           /\ InDelete(calls[id], calls[id].step)
                           /\ calls[id].steps[calls[id].step] \in S3Commands}

\* the key the copy of item i read, and the key it wrote
CopiedFrom(i) == prefix \o job.files[i].key
CopiedTo(i) ==
    prefix \o opts.destPath \o Slice(job.files[i].key, Len(prefix) + Len(opts.remotePath))

DeletesOwnSource(id) == calls[id].params.Key = CopiedFrom(calls[id].cont)

\* an object that moveFiles listed is gone only when its copy is stored
NoneLostBeforeCopied ==
    (op = "moveFiles" /\ ~opts.dry) =>
        \A i \in 1..Len(job.files) :
            <<Bucket, job.files[i].key>> \notin DOMAIN objects =>
                <<Bucket, CopiedTo(i)>> \in DOMAIN objects

\* C35: for every limit and every interleaving, each item of moveFiles deletes the
\* source key that the same item copied, never the source of another item, and no
\* source object is deleted before its own copy has succeeded.
C35_MoveDeletesOwnSource ==
    /\ \A id \in ItemDeletes : DeletesOwnSource(id)
    /\ NoneLostBeforeCopied

\* C35 for moveFiles that runs one item at a time
C35_MoveOneAtATime ==
    job.limit <= 1 =>
        /\ \A id \in ItemDeletes : DeletesOwnSource(id)
        /\ NoneLostBeforeCopied

\* an item of moveFiles asks for the delete of the source of another item, whose
\* copy is still under way
C35_DeletesOtherSource ==
    \E id \in ItemDeletes : \E other \in DOMAIN calls :
        /\ other # id /\ calls[other].cont > 0
        /\ calls[id].params.Key = CopiedFrom(calls[other].cont)
        /\ calls[other].steps[calls[other].step] = "CopyObject"
        /\ calls[id].steps[calls[id].step] = "DeleteObject"
(***************************************************************************)
(* Claims about the cache and opts.bucket                                  *)
(***************************************************************************)
\* get has returned a record
GotRecord == op = "get" /\ result.state = "returned" /\ result.err = NullErr

\* the record of the bucket and key that the call names
RecordOfCall == parse(objects[Addr(opts, opts.key)].body).val

\* C36: with the cache enabled, get({bucket: B, key: k}) never returns data that
\* was stored in or fetched from another bucket under the same key: the value
\* returned is the record of (B, k).
C36_NoLeakAcrossBuckets ==
    GotRecord =>
        /\ Addr(opts, opts.key) \in DOMAIN objects
        /\ result.data = RecordOfCall

\* get of a key that the bucket named does not hold returns, from the cache, the
\* record that put stored under that key in the other bucket
C36_Leak ==
    /\ GotRecord /\ result.meta = "cached" /\ opts.bucket = OtherBucket
    /\ last.op = "put" /\ last.o.bucket = "" /\ last.err = NullErr
    /\ Addr(opts, opts.key) \notin DOMAIN objects
    /\ result.data = last.o.value
(***************************************************************************)
(* Claims about update whose put fails                                     *)
(***************************************************************************)
\* update has read the record from the cache and the backend has failed its put
UpdateFailedAtPut ==
    /\ op = "update" /\ result.state = "returned" /\ cache.on
    /\ Requests("GetObject", result.sent) = {}
    /\ result.err = "StoreError" /\ result.failedAt = "Upload"

\* the call after an update that failed is a get of the same key, served by the cache
GetAfterFailedUpdate ==
    /\ last.op = "update" /\ last.err = "StoreError"
    /\ op = "get" /\ opts.key = last.o.key
    /\ result.state = "returned" /\ result.meta = "cached"

\* C37: with the cache enabled, when update reads the record from the cache and its
\* put fails at the backend, the value cached for the key after the failure is the
\* value cached before the update, and a later get shows none of the updates.
C37_FailedUpdateKeepsCache ==
    /\ UpdateFailedAtPut =>
          /\ lruHas(lru, opts.key)
          /\ Canon(lruPeek(lru, opts.key)) = Canon(result.base)
    /\ GetAfterFailedUpdate =>
          Canon(result.data) = Canon(StoredRecord)

\* what holds of an update whose put fails: the bucket is as it was
C37_FailedUpdateKeepsStore == UpdateFailedAtPut => objects = before

\* the cache holds the record with the updates of the update whose put failed, and
\* the bucket holds the record without them
C37_CacheKeepsUpdates ==
    /\ UpdateFailedAtPut /\ objects = before
    /\ Plain(lruPeek(lru, opts.key)) = MergeAll(Plain(result.base), opts.updates)
    /\ Plain(lruPeek(lru, opts.key)) # Canon(StoredRecord)
(***************************************************************************)
(* Claims about dry runs and the cache                                     *)
(***************************************************************************)
\* the entry of the cache for key k: whether there is one, and its value
EntryOf(l, k) == [has |-> lruHas(l, k), value |-> lruPeek(l, k)]

\* the call after a dry run of put is a get of the same key, which the backend did
\* not fail
GetAfterDryPut ==
    /\ last.op = "put" /\ last.o.dry /\ last.err = NullErr
    /\ op = "get" /\ opts.key = last.o.key
    /\ result.state = "returned" /\ result.err \notin {"StoreError", "LocalFsError"}

\* C38: with the cache enabled, put or update invoked with dry = true does not
\* insert, replace or alter the entry of the cache for its key, so that a following
\* get returns what the backend stores, or NoSuchKey, never the value of the dry run.
C38_DryRunKeepsCache ==
    /\ [][(op' \in {"put", "update"} /\ opts'.dry) =>
             EntryOf(lru', opts'.key) = EntryOf(lru, opts'.key)]_vars
    /\ [](GetAfterDryPut =>
             IF Addr(opts, opts.key) \in DOMAIN objects
             THEN result.err = NullErr => result.data = RecordOfCall
             ELSE result.err = "NoSuchKey")

\* a get returns, from the cache, the value of the dry run of put before it, for a
\* key that the bucket does not hold
C38_DryPutCached ==
    /\ GetAfterDryPut /\ result.err = NullErr /\ result.meta = "cached"
    /\ result.data = last.o.value
    /\ Addr(opts, opts.key) \notin DOMAIN objects
(***************************************************************************)
(* Claims about the cache under concurrent calls                           *)
(***************************************************************************)
\* every call that was issued has completed
AllCompleted == calls = NoCalls /\ (op = "none" \/ result.state = "returned")

\* the key that the calls are about
TheKey == EvictOpts.key

\* the value cached for the key is the record that the bucket holds for it
Coherent ==
    lruHas(lru, TheKey) =>
        /\ Addr(EvictOpts, TheKey) \in DOMAIN objects
        /\ Canon(lruPeek(lru, TheKey))
              = Canon(parse(objects[Addr(EvictOpts, TheKey)].body).val)

\* C39: for one client with the cache enabled and no other writer, when all the
\* get and put calls issued concurrently on a key have completed, the value cached
\* for the key, if any, is deep-equal to the record the backend stores for it,
\* whatever the order of the writes at the backend and of the responses.
C39_CacheCoherence == AllCompleted => Coherent

\* two puts have completed, the bucket holds the record of the one and the cache
\* that of the other
C39_StaleEntry ==
    /\ AllCompleted /\ ~Coherent
    /\ op = "put" /\ result.err = NullErr
    /\ Addr(EvictOpts, TheKey) \in DOMAIN objects
    /\ objects[Addr(EvictOpts, TheKey)].record = opts.value
    /\ lruPeek(lru, TheKey) # opts.value
====
